---- MODULE Spec2Model ----
(***************************************************************************)
(* Model of the ops-map domain model (src/model.js, kept here as           *)
(* src/unnamed/part_004) and of the controller that holds the single       *)
(* in-memory snapshot (src/main.js, kept as src/unnamed/part_003).         *)
(*                                                                         *)
(* Representation of JavaScript values:                                    *)
(*  - a string is a sequence of tokens; the token "sp" is one whitespace   *)
(*    character, every other token is a run of non-whitespace characters;  *)
(*    "" is << >>;                                                         *)
(*  - undefined (and every other non-string scalar) is Undefined;          *)
(*  - a number is Num(n), null is Null, NaN/undefined coordinates are NaN; *)
(*  - an object is a record, a missing property is a missing field;        *)
(*  - a decimal numeral or a clock reading inside a string is a unary      *)
(*    numeral, so generated names, ids and timestamps need no tables;      *)
(*  - object identity of a snapshot is its field ref (an address).         *)
(***************************************************************************)
EXTENDS Integers, Sequences, FiniteSets, TLC

VARIABLES state, saveTimer, clock, nextId, nextRef, pc, steps, last, panel,
          drag, stored, inbox, peer

vars ==
    <<state, saveTimer, clock, nextId, nextRef, pc, steps, last, panel,
      drag, stored, inbox, peer>>

\* What the board, layout and transfer handlers never touch: the drag session,
\* the storage area, the pending storage notifications and the other window.
background == <<drag, stored, inbox, peer>>

\* ------------------------------------------------------------------ bounds
MaxSteps == 3

MaxPadding == 1

\* Layout calls in a row on one board.
MaxPasses == 2

\* Renders (frame flushes and the final commit) during drags on one board.
MaxDragRenders == 3

\* Edits, clock ticks and foreign writes in one run of the windows.
MaxSyncSteps == 3

\* ------------------------------------------------------------- JS values
Undefined == <<"undefined">>

Null == [kind |-> "null"]

NaN == [kind |-> "NaN"]

Num(n) == [kind |-> "number", value |-> n]

Has(obj, key) == key \in DOMAIN obj

Field(obj, key) == IF Has(obj, key) THEN obj[key] ELSE Undefined

IsObject(v) == ~Has(v, "nonObject")

NonObject == [nonObject |-> TRUE]

IsString(v) == v # Undefined

Truthy(v) == v # Undefined /\ v # <<>>

Unary(n, tok) == [i \in 1..n |-> tok]

Min(a, b) == IF a < b THEN a ELSE b

RECURSIVE trimStart(_)
trimStart(s) == IF s # <<>> /\ Head(s) = "sp" THEN trimStart(Tail(s)) ELSE s

RECURSIVE trimEnd(_)
trimEnd(s) ==
    IF s # <<>> /\ s[Len(s)] = "sp" THEN trimEnd(SubSeq(s, 1, Len(s) - 1)) ELSE s

trim(s) == trimEnd(trimStart(s))

\* --------------------------------------------------------------- constants
STATE_VERSION == 1

MAX_CAMPAIGNS == 6

DEFAULT_CAMPAIGN_COLORS ==
    << <<"#ffd99b">>, <<"#a8e1cf">>, <<"#b7d4ff">>, <<"#f5bed8">>,
       <<"#d1c3f2">>, <<"#f7d6b2">>, <<"#c5e9f4">> >>

LAUNCHABLE == <<"launchable">>

PHYSICAL == <<"physical">>

PROJECT_MODE_KEYS == {LAUNCHABLE, PHYSICAL}

LINK_TYPE_KEYS ==
    {<<"web">>, <<"obsidian">>, <<"vscode">>, <<"cursor">>, <<"antigravity">>, <<"custom">>}

\* Tokens that read as "<scheme>://" at the start of a string.
SchemeTokens ==
    {"https://", "http://", "obsidian://", "vscode://", "cursor://", "antigravity://", "foo://"}

URL_SCHEME_PATTERN(s) == s # <<>> /\ Head(s) \in SchemeTokens

GOOGLE_PLAY_BOOKS_READER == "play.google.com/books/reader"

\* A query parameter named pg.
PgTokens == {"pg=1"}

\* ----------------------------------------------------------------- helpers
createId(prefix, n) == <<prefix>> \o Unary(n, "#")

cleanText(input) == IF IsString(input) THEN trim(input) ELSE <<>>

cleanMissionUntrimmed(input) == IF IsString(input) THEN input ELSE <<>>

cleanMission(input) == IF IsString(input) THEN trim(input) ELSE <<>>

RECURSIVE dedupe(_)
dedupe(ids) ==
    IF ids = <<>> THEN <<>>
    ELSE LET front == dedupe(SubSeq(ids, 1, Len(ids) - 1))
             x == ids[Len(ids)]
         IN IF \E i \in 1..Len(front) : front[i] = x THEN front ELSE Append(front, x)

uniqueIds(obj, key) ==
    dedupe(SelectSeq(IF Has(obj, key) THEN obj[key] ELSE <<>>, Truthy))

isFiniteNumber(value) == value.kind = "number"

toISOString(now) == <<"T">> \o Unary(now, "ms")

withUpdatedStamp(s, env) == [s EXCEPT !.updatedAt = toISOString(env.now), !.ref = env.ref]

sanitizeLinkType(linkType) == IF linkType \in LINK_TYPE_KEYS THEN linkType ELSE <<"web">>

sanitizeProjectMode(mode) == IF mode \in PROJECT_MODE_KEYS THEN mode ELSE LAUNCHABLE

sanitizeColor(color, fallbackIndex) ==
    LET candidate == cleanText(color)
    IN IF candidate # <<>> THEN candidate
       ELSE DEFAULT_CAMPAIGN_COLORS[(fallbackIndex % Len(DEFAULT_CAMPAIGN_COLORS)) + 1]

\* new URL(link), falling back to new URL("https://" + link): the parsed URL as a
\* token sequence, or << >> when neither parses (no host after the scheme).
parseUrlWithOptionalHttps(link) ==
    IF URL_SCHEME_PATTERN(link)
    THEN (IF Len(link) >= 2 /\ link[2] # "sp" THEN link ELSE <<>>)
    ELSE (IF link # <<>> /\ Head(link) # "sp" THEN <<"https://">> \o link ELSE <<>>)

normalizeGooglePlayBooksReaderLink(link) ==
    LET parsed == parseUrlWithOptionalHttps(link)
    IN IF parsed = <<>> THEN link
       ELSE IF parsed[2] # GOOGLE_PLAY_BOOKS_READER THEN link
       ELSE IF ~\E i \in 1..Len(parsed) : parsed[i] \in PgTokens THEN link
       ELSE SelectSeq(parsed, LAMBDA t : t \notin PgTokens)

normalizeProjectLinkUnprefixed(link, linkType) ==
    LET trimmed == cleanText(link)
    IN IF trimmed = <<>> THEN <<>> ELSE normalizeGooglePlayBooksReaderLink(trimmed)

normalizeProjectLinkAlwaysPrefixed(link, linkType) ==
    LET trimmed == cleanText(link)
    IN IF trimmed = <<>> THEN <<>>
       ELSE LET normalized ==
                    IF linkType = <<"web">> THEN <<"https://">> \o trimmed ELSE trimmed
            IN normalizeGooglePlayBooksReaderLink(normalized)

normalizeProjectLink(link, linkType) ==
    LET trimmed == cleanText(link)
    IN IF trimmed = <<>> THEN <<>>
       ELSE LET normalized ==
                    IF linkType = <<"web">> /\ ~URL_SCHEME_PATTERN(trimmed)
                    THEN <<"https://">> \o trimmed
                    ELSE trimmed
            IN normalizeGooglePlayBooksReaderLink(normalized)

\* encodeURIComponent on the tokens of the model: whitespace is escaped, a slash
\* is escaped, every other token is made of unreserved characters.
encodeURIComponent(text) ==
    [i \in 1..Len(text) |->
        IF text[i] = "sp" THEN "%20" ELSE IF text[i] = "/" THEN "%2F" ELSE text[i]]

\* text.replace(/^\/+/, "")
stripLeadingSlashes(text) ==
    LET slashes == {n \in 0..Len(text) : \A i \in 1..n : text[i] = "/"}
        lead == CHOOSE n \in slashes : \A m \in slashes : m <= n
    IN SubSeq(text, lead + 1, Len(text))

EDITOR_LINK_TYPES == {<<"vscode">>, <<"cursor">>, <<"antigravity">>}

\* The scheme token of a link type with a URI scheme of its own.
schemeOf(linkType) == linkType[1] \o "://"

buildLinkFromHelper(linkType, helperInput) ==
    LET cleaned == cleanText(helperInput)
    IN IF cleaned = <<>> THEN <<>>
       ELSE IF linkType = <<"web">> THEN normalizeProjectLink(cleaned, <<"web">>)
       ELSE IF linkType = <<"obsidian">>
       THEN (IF Head(cleaned) = "obsidian://" THEN cleaned
             ELSE <<"obsidian://", "open?path=">> \o encodeURIComponent(cleaned))
       ELSE IF linkType \in EDITOR_LINK_TYPES
       THEN (IF Head(cleaned) = schemeOf(linkType) THEN cleaned
             ELSE <<schemeOf(linkType), "file/">> \o stripLeadingSlashes(cleaned))
       ELSE cleaned

inferLinkType(link) ==
    LET cleaned == cleanText(link)
        starts(tok) == cleaned # <<>> /\ Head(cleaned) = tok
    IN IF starts("obsidian://") THEN <<"obsidian">>
       ELSE IF starts("vscode://") THEN <<"vscode">>
       ELSE IF starts("cursor://") THEN <<"cursor">>
       ELSE IF starts("antigravity://") THEN <<"antigravity">>
       ELSE IF starts("http://") \/ starts("https://") THEN <<"web">>
       ELSE IF \E i \in 1..Len(cleaned) : cleaned[i] \in SchemeTokens THEN <<"custom">>
       ELSE <<"web">>

createEmptyState(env) ==
    [version |-> STATE_VERSION, campaigns |-> <<>>, projects |-> <<>>,
     updatedAt |-> toISOString(env.now), ref |-> env.ref]

CampaignIdSet(campaigns) == {campaigns[i].id : i \in 1..Len(campaigns)}

\* array.filter(Boolean) over entries that are objects or null (NonObject).
filterBoolean(entries) == SelectSeq(entries, IsObject)

normalizeCampaign(campaign, index, env) ==
    [id |-> IF cleanText(Field(campaign, "id")) # <<>>
            THEN cleanText(Field(campaign, "id"))
            ELSE createId("campaign-", env.id + index),
     name |-> IF cleanText(Field(campaign, "name")) # <<>>
              THEN cleanText(Field(campaign, "name"))
              ELSE <<"Campaign", "sp">> \o Unary(index + 1, "1"),
     color |-> sanitizeColor(Field(campaign, "color"), index),
     x |-> IF Has(campaign, "x") /\ isFiniteNumber(campaign.x) THEN campaign.x ELSE Null,
     y |-> IF Has(campaign, "y") /\ isFiniteNumber(campaign.y) THEN campaign.y ELSE Null,
     currentMission |-> cleanMission(Field(campaign, "currentMission"))]

normalizeProjectLinkType(project) ==
    sanitizeLinkType(IF Truthy(Field(project, "linkType"))
                     THEN project.linkType
                     ELSE inferLinkType(Field(project, "link")))

normalizeMemberships(project, campaignIds) ==
    SelectSeq(uniqueIds(project, "campaignIds"), LAMBDA id : id \in campaignIds)

normalizeProject(project, index, campaignIds, env) ==
    [id |-> IF cleanText(Field(project, "id")) # <<>>
            THEN cleanText(Field(project, "id"))
            ELSE createId("project-", env.id + index),
     name |-> IF cleanText(Field(project, "name")) # <<>>
              THEN cleanText(Field(project, "name"))
              ELSE <<"Project", "sp">> \o Unary(index + 1, "1"),
     mode |-> sanitizeProjectMode(Field(project, "mode")),
     linkType |-> normalizeProjectLinkType(project),
     link |-> normalizeProjectLink(Field(project, "link"), normalizeProjectLinkType(project)),
     campaignIds |-> normalizeMemberships(project, campaignIds)]

normalizeState(rawState, env) ==
    IF ~IsObject(rawState) THEN createEmptyState(env)
    ELSE LET rawCampaigns == IF Has(rawState, "campaigns") THEN rawState.campaigns ELSE <<>>
             mapped == filterBoolean(
                           [i \in 1..Len(rawCampaigns) |->
                               IF ~IsObject(rawCampaigns[i]) THEN NonObject
                               ELSE normalizeCampaign(rawCampaigns[i], i - 1, env)])
             campaigns == SubSeq(mapped, 1, Min(Len(mapped), MAX_CAMPAIGNS))
             campaignIds == CampaignIdSet(campaigns)
             rawProjects == IF Has(rawState, "projects") THEN rawState.projects ELSE <<>>
             projects == filterBoolean(
                             [i \in 1..Len(rawProjects) |->
                                 IF ~IsObject(rawProjects[i]) THEN NonObject
                                 ELSE IF Len(normalizeMemberships(rawProjects[i],
                                                                  campaignIds)) = 0
                                 THEN NonObject
                                 ELSE normalizeProject(rawProjects[i], i - 1,
                                                       campaignIds, env)])
         IN [version |-> STATE_VERSION,
             campaigns |-> campaigns,
             projects |-> projects,
             updatedAt |-> IF cleanText(Field(rawState, "updatedAt")) # <<>>
                           THEN cleanText(Field(rawState, "updatedAt"))
                           ELSE toISOString(env.now),
             ref |-> env.ref]

\* --------------------------------------------------------------- mutations
\* value ?? fallback on an optional property of a draft or patch.
Coalesce(obj, key, fallback) == IF Field(obj, key) # Undefined THEN obj[key] ELSE fallback

atCampaignCapOffByOne(s) == Len(s.campaigns) > MAX_CAMPAIGNS

atCampaignCap(s) == Len(s.campaigns) >= MAX_CAMPAIGNS

addCampaign(s, campaignDraft, env) ==
    IF atCampaignCap(s) THEN s
    ELSE LET name == cleanText(Field(campaignDraft, "name"))
         IN IF name = <<>> THEN s
            ELSE LET campaign ==
                         [id |-> createId("campaign-", env.id),
                          name |-> name,
                          color |-> sanitizeColor(Field(campaignDraft, "color"), Len(s.campaigns)),
                          x |-> IF Has(campaignDraft, "x") /\ isFiniteNumber(campaignDraft.x)
                                THEN campaignDraft.x ELSE Null,
                          y |-> IF Has(campaignDraft, "y") /\ isFiniteNumber(campaignDraft.y)
                                THEN campaignDraft.y ELSE Null,
                          currentMission |-> <<>>]
                 IN withUpdatedStamp([s EXCEPT !.campaigns = Append(@, campaign)], env)

renameCampaignAnyId(s, campaignId, nextName, env) ==
    LET name == cleanText(nextName)
        campaigns == [k \in 1..Len(s.campaigns) |-> [s.campaigns[k] EXCEPT !.name = name]]
    IN IF name = <<>> \/ s.campaigns = <<>> THEN s
       ELSE withUpdatedStamp([s EXCEPT !.campaigns = campaigns], env)

renameCampaign(s, campaignId, nextName, env) ==
    LET name == cleanText(nextName)
        hit(campaign) == campaign.id = campaignId /\ campaign.name # name
        campaigns == [k \in 1..Len(s.campaigns) |->
                        IF hit(s.campaigns[k]) THEN [s.campaigns[k] EXCEPT !.name = name]
                        ELSE s.campaigns[k]]
        didChange == \E i \in 1..Len(s.campaigns) : hit(s.campaigns[i])
    IN IF name = <<>> THEN s
       ELSE IF didChange THEN withUpdatedStamp([s EXCEPT !.campaigns = campaigns], env)
       ELSE s

updateCampaignColor(s, campaignId, nextColor, env) ==
    LET hit(campaign, index) ==
            campaign.id = campaignId /\ sanitizeColor(nextColor, index) # campaign.color
        campaigns == [k \in 1..Len(s.campaigns) |->
                        IF hit(s.campaigns[k], k - 1)
                        THEN [s.campaigns[k] EXCEPT !.color = sanitizeColor(nextColor, k - 1)]
                        ELSE s.campaigns[k]]
        didChange == \E i \in 1..Len(s.campaigns) : hit(s.campaigns[i], i - 1)
    IN IF didChange THEN withUpdatedStamp([s EXCEPT !.campaigns = campaigns], env) ELSE s

repositionCampaignUnchecked(s, campaignId, position, env) ==
    withUpdatedStamp(
        [s EXCEPT !.campaigns =
            [k \in 1..Len(s.campaigns) |->
                IF s.campaigns[k].id = campaignId
                THEN [s.campaigns[k] EXCEPT !.x = position.x, !.y = position.y]
                ELSE s.campaigns[k]]], env)

repositionCampaign(s, campaignId, position, env) ==
    LET hit(campaign) ==
            campaign.id = campaignId /\ ~(campaign.x = position.x /\ campaign.y = position.y)
        campaigns == [k \in 1..Len(s.campaigns) |->
                        IF hit(s.campaigns[k])
                        THEN [s.campaigns[k] EXCEPT !.x = position.x, !.y = position.y]
                        ELSE s.campaigns[k]]
        didChange == \E i \in 1..Len(s.campaigns) : hit(s.campaigns[i])
    IN IF ~(Has(position, "x") /\ isFiniteNumber(position.x))
          \/ ~(Has(position, "y") /\ isFiniteNumber(position.y)) THEN s
       ELSE IF didChange THEN withUpdatedStamp([s EXCEPT !.campaigns = campaigns], env)
       ELSE s

withMissionRollover(campaign, nextMission) ==
    [x \in DOMAIN campaign \cup {"previousMission"} |->
        IF x = "currentMission" THEN nextMission
        ELSE IF x = "previousMission" THEN campaign.currentMission
        ELSE campaign[x]]

withMission(campaign, nextMission) == [campaign EXCEPT !.currentMission = nextMission]

updateCampaignMission(s, campaignId, missionInput, env) ==
    LET nextMission == cleanMission(missionInput)
        hit(campaign) == campaign.id = campaignId /\ campaign.currentMission # nextMission
        campaigns == [k \in 1..Len(s.campaigns) |->
                        IF hit(s.campaigns[k]) THEN withMission(s.campaigns[k], nextMission)
                        ELSE s.campaigns[k]]
        didChange == \E i \in 1..Len(s.campaigns) : hit(s.campaigns[i])
    IN IF didChange THEN withUpdatedStamp([s EXCEPT !.campaigns = campaigns], env) ELSE s

stripMembershipKeepOrphans(projects, campaignId) ==
    [i \in 1..Len(projects) |->
        [projects[i] EXCEPT !.campaignIds = SelectSeq(@, LAMBDA id : id # campaignId)]]

stripMembershipDropMembers(projects, campaignId) ==
    SelectSeq(projects, LAMBDA p : \A k \in 1..Len(p.campaignIds) :
                                      p.campaignIds[k] # campaignId)

stripMembership(projects, campaignId) ==
    LET stripped == [i \in 1..Len(projects) |->
                        [projects[i] EXCEPT
                            !.campaignIds = SelectSeq(@, LAMBDA id : id # campaignId)]]
    IN SelectSeq(stripped, LAMBDA p : Len(p.campaignIds) > 0)

deleteCampaign(s, campaignId, env) ==
    LET campaigns == SelectSeq(s.campaigns, LAMBDA c : c.id # campaignId)
        projects == stripMembership(s.projects, campaignId)
    IN IF Len(campaigns) = Len(s.campaigns) THEN s
       ELSE withUpdatedStamp([s EXCEPT !.campaigns = campaigns, !.projects = projects], env)

draftLinkAnyMode(projectDraft, mode, linkType) ==
    normalizeProjectLink(Field(projectDraft, "link"), linkType)

draftLink(projectDraft, mode, linkType) ==
    IF mode = PHYSICAL THEN <<>>
    ELSE normalizeProjectLink(Field(projectDraft, "link"), linkType)

draftRejectedNameUnchecked(name, campaignIds, mode, link) ==
    Len(campaignIds) = 0 \/ (mode = LAUNCHABLE /\ link = <<>>)

draftRejectedLinkUnchecked(name, campaignIds, mode, link) ==
    name = <<>> \/ Len(campaignIds) = 0

draftRejected(name, campaignIds, mode, link) ==
    \/ name = <<>> \/ Len(campaignIds) = 0
    \/ mode = LAUNCHABLE /\ link = <<>>

addProject(s, projectDraft, env) ==
    LET name == cleanText(Field(projectDraft, "name"))
        mode == sanitizeProjectMode(Field(projectDraft, "mode"))
        linkType == sanitizeLinkType(Field(projectDraft, "linkType"))
        link == draftLink(projectDraft, mode, linkType)
        validCampaignIds == CampaignIdSet(s.campaigns)
        campaignIds == SelectSeq(uniqueIds(projectDraft, "campaignIds"),
                                 LAMBDA id : id \in validCampaignIds)
        project == [id |-> createId("project-", env.id), name |-> name, mode |-> mode,
                    link |-> link, linkType |-> linkType, campaignIds |-> campaignIds]
    IN IF draftRejected(name, campaignIds, mode, link) THEN s
       ELSE withUpdatedStamp([s EXCEPT !.projects = Append(@, project)], env)

orphanedIgnored(nextCampaignIds) == FALSE

orphaned(nextCampaignIds) == Len(nextCampaignIds) = 0

sameMembershipInOrder(nextCampaignIds, project) == nextCampaignIds = project.campaignIds

sameMembership(nextCampaignIds, project) ==
    /\ Len(nextCampaignIds) = Len(project.campaignIds)
    /\ \A i \in 1..Len(nextCampaignIds) :
           \E j \in 1..Len(project.campaignIds) : project.campaignIds[j] = nextCampaignIds[i]

linklessLaunchAccepted(mode, nextLink) == FALSE

linklessLaunch(mode, nextLink) == mode = LAUNCHABLE /\ nextLink = <<>>

\* The map callback of updateProject for a project whose id is projectId:
\* kind "delete" is the null entry, "keep" returns the project object itself,
\* "replace" returns a new object; delete and replace set didChange.
patchProject(project, projectPatch, validCampaignIds) ==
    LET linkType == sanitizeLinkType(Coalesce(projectPatch, "linkType", project.linkType))
        mode == sanitizeProjectMode(Coalesce(projectPatch, "mode", project.mode))
        nextCampaignIds ==
            SelectSeq(uniqueIds(IF Has(projectPatch, "campaignIds") THEN projectPatch
                                ELSE project, "campaignIds"),
                      LAMBDA id : id \in validCampaignIds)
        nextName == cleanText(Coalesce(projectPatch, "name", project.name))
        nextLink == IF mode = PHYSICAL THEN <<>>
                    ELSE normalizeProjectLink(Coalesce(projectPatch, "link", project.link),
                                              linkType)
    IN IF orphaned(nextCampaignIds) THEN [kind |-> "delete"]
       ELSE IF linklessLaunch(mode, nextLink) THEN [kind |-> "keep"]
       ELSE IF /\ nextName = project.name
               /\ nextLink = project.link
               /\ mode = project.mode
               /\ linkType = project.linkType
               /\ sameMembership(nextCampaignIds, project)
            THEN [kind |-> "keep"]
       ELSE [kind |-> "replace",
             project |-> [project EXCEPT
                             !.name = IF nextName # <<>> THEN nextName ELSE project.name,
                             !.mode = mode,
                             !.link = nextLink,
                             !.linkType = linkType,
                             !.campaignIds = nextCampaignIds]]

updateProject(s, projectId, projectPatch, env) ==
    LET validCampaignIds == CampaignIdSet(s.campaigns)
        outcome(p) == IF p.id # projectId THEN [kind |-> "keep"]
                      ELSE patchProject(p, projectPatch, validCampaignIds)
        nextProjects == filterBoolean(
                            [i \in 1..Len(s.projects) |->
                                IF outcome(s.projects[i]).kind = "delete" THEN NonObject
                                ELSE IF outcome(s.projects[i]).kind = "replace"
                                THEN outcome(s.projects[i]).project
                                ELSE s.projects[i]])
        didChange == \E i \in 1..Len(s.projects) : outcome(s.projects[i]).kind # "keep"
    IN IF didChange THEN withUpdatedStamp([s EXCEPT !.projects = nextProjects], env) ELSE s

deleteProject(s, projectId, env) ==
    LET projects == SelectSeq(s.projects, LAMBDA p : p.id # projectId)
    IN IF Len(projects) = Len(s.projects) THEN s
       ELSE withUpdatedStamp([s EXCEPT !.projects = projects], env)

\* ------------------------------------------------- layout (board slots)
\* An argument that was not passed (undefined), so that its default applies.
Omitted == [kind |-> "undefined"]

MAX_CAMPAIGN_SLOTS == 6

normalizePositiveIntegerUnchecked(value, fallback) ==
    IF value.kind # "number" THEN fallback ELSE value.value

normalizePositiveInteger(value, fallback) ==
    IF value.kind # "number" THEN fallback
    ELSE IF value.value > 0 THEN value.value ELSE fallback

\* A default parameter: the default when the argument is undefined.
withDefault(maxSlots) == IF maxSlots = Omitted THEN Num(MAX_CAMPAIGN_SLOTS) ELSE maxSlots

\* Array.isArray(state?.campaigns) ? state.campaigns : [], and the same for
\* projects and for a project's campaignIds.
arrayOr(obj, key) == IF IsObject(obj) /\ Has(obj, key) THEN obj[key] ELSE <<>>

getVisibleCampaigns(s, maxSlots) ==
    LET safeMax == normalizePositiveInteger(withDefault(maxSlots), MAX_CAMPAIGN_SLOTS)
        campaigns == arrayOr(s, "campaigns")
    IN SubSeq(campaigns, 1, Min(safeMax, Len(campaigns)))

\* campaigns[slotIndex] ?? null
slotCampaign(campaigns, slotIndex) ==
    IF slotIndex + 1 <= Len(campaigns) /\ IsObject(campaigns[slotIndex + 1])
    THEN campaigns[slotIndex + 1] ELSE Null

buildCampaignSlots(s, maxSlots) ==
    LET safeMax == normalizePositiveInteger(withDefault(maxSlots), MAX_CAMPAIGN_SLOTS)
        campaigns == getVisibleCampaigns(s, Num(safeMax))
    IN [k \in 1..safeMax |->
           [slotIndex |-> k - 1, campaign |-> slotCampaign(campaigns, k - 1)]]

\* The ids a project lists that have a list in the map, in the order and as
\* often as the project lists them (memberships.forEach).
pushesFirstOnly(project, campaignIdSet) ==
    LET all == SelectSeq(arrayOr(project, "campaignIds"), LAMBDA id : id \in campaignIdSet)
    IN IF all = <<>> THEN <<>> ELSE <<Head(all)>>

pushes(project, campaignIdSet) ==
    SelectSeq(arrayOr(project, "campaignIds"), LAMBDA id : id \in campaignIdSet)

\* The list the map holds for campaignId: one entry per push, in project order.
RECURSIVE projectList(_, _, _)
projectList(projects, campaignId, campaignIdSet) ==
    IF projects = <<>> THEN <<>>
    ELSE LET hits == SelectSeq(pushes(Head(projects), campaignIdSet),
                               LAMBDA id : id = campaignId)
         IN [k \in 1..Len(hits) |-> Head(projects)]
            \o projectList(Tail(projects), campaignId, campaignIdSet)

\* buildProjectsByCampaign: threw is TRUE when campaign.id is read on a null
\* entry; map is the Map as a function from campaign id to project list.
buildProjectsByCampaign(s, maxSlots) ==
    LET campaigns == getVisibleCampaigns(s, maxSlots)
        projects == arrayOr(s, "projects")
    IN IF \E i \in 1..Len(campaigns) : ~IsObject(campaigns[i])
       THEN [threw |-> TRUE, map |-> <<>>]
       ELSE LET campaignIdSet == {Field(campaigns[i], "id") : i \in 1..Len(campaigns)}
            IN [threw |-> FALSE,
                map |-> [id \in campaignIdSet |->
                            projectList(projects, id, campaignIdSet)]]

\* --------------------------------------------- layout (canvas positions)
\* Coordinates are whole pixels. Cosines and sines are taken from tables in
\* thousandths and a product with one is truncated to a whole pixel, so a seeded
\* coordinate is within a pixel of the floating-point one. A project position
\* is an exact fraction num/den of a pixel.
CANVAS_PADDING == 90

CAMPAIGN_RADIUS == 175

Max(a, b) == IF a > b THEN a ELSE b

\* Math.trunc(a / b) for b > 0.
truncDiv(a, b) == IF a >= 0 THEN a \div b ELSE -((-a) \div b)

\* Number.isFinite(value) for a coordinate or a viewport side.
isFiniteCoordinate(value) == value.kind = "number"

\* campaign.x or campaign.y as read by the layout.
coordinate(campaign, key) == IF Has(campaign, key) THEN campaign[key] ELSE Omitted

\* Math.max(min, Math.min(max, value)) on whole pixels; NaN when a side of the
\* viewport is not a number.
clamp(value, min, max) ==
    IF value.kind # "number" \/ min.kind # "number" \/ max.kind # "number" THEN NaN
    ELSE Num(Max(min.value, Min(max.value, value.value)))

\* viewport.width - inset (NaN when the side is not a number).
inset(side, amount) == IF side.kind = "number" THEN Num(side.value - amount) ELSE NaN

campaignBounds(viewport) ==
    [minX |-> Num(CANVAS_PADDING + CAMPAIGN_RADIUS),
     maxX |-> inset(viewport.width, CANVAS_PADDING + CAMPAIGN_RADIUS),
     minY |-> Num(CANVAS_PADDING + CAMPAIGN_RADIUS),
     maxY |-> inset(viewport.height, CANVAS_PADDING + CAMPAIGN_RADIUS)]

projectBounds(viewport) ==
    [minX |-> Num(CANVAS_PADDING),
     maxX |-> inset(viewport.width, CANVAS_PADDING),
     minY |-> Num(CANVAS_PADDING),
     maxY |-> inset(viewport.height, CANVAS_PADDING)]

\* 1000 * cos and 1000 * sin of the ring angles, in degrees: -90 + 360 * index /
\* count for up to MAX_CAMPAIGNS campaigns.
RingDegrees == {-90, -30, -18, 0, 30, 54, 90, 126, 150, 180, 198, 210}

cos1000 ==
    [d \in RingDegrees |->
        CASE d \in {-90, 90} -> 0
          [] d \in {-30, 30} -> 866
          [] d = -18 -> 951
          [] d = 0 -> 1000
          [] d = 54 -> 588
          [] d = 126 -> -588
          [] d \in {150, 210} -> -866
          [] d = 180 -> -1000
          [] d = 198 -> -951]

sin1000 ==
    [d \in RingDegrees |->
        CASE d = -90 -> -1000
          [] d \in {-30, 210} -> -500
          [] d \in {-18, 198} -> -309
          [] d \in {0, 180} -> 0
          [] d \in {30, 150} -> 500
          [] d \in {54, 126} -> 809
          [] d = 90 -> 1000]

\* (-Math.PI / 2 + (2 * Math.PI * index) / Math.max(1, count)) % (2 * Math.PI)
ringAngle(index, count) == -90 + (360 * index) \div Max(1, count)

\* Math.max(80, Math.min(viewport.width, viewport.height) * 0.26)
orbitRadius(viewport) ==
    Max(80, truncDiv(Min(viewport.width.value, viewport.height.value) * 26, 100))

\* The seeded coordinates of the campaign at index; NaN when a side of the
\* viewport is not a number.
seed(viewport, index, count) ==
    IF viewport.width.kind # "number" \/ viewport.height.kind # "number"
    THEN [x |-> NaN, y |-> NaN]
    ELSE [x |-> Num(viewport.width.value \div 2
                    + truncDiv(cos1000[ringAngle(index, count)] * orbitRadius(viewport),
                               1000)),
          y |-> Num(viewport.height.value \div 2 + 22
                    + truncDiv(sin1000[ringAngle(index, count)] * orbitRadius(viewport),
                               1000))]

needsSeed(campaign) ==
    ~isFiniteCoordinate(coordinate(campaign, "x"))
    \/ ~isFiniteCoordinate(coordinate(campaign, "y"))

\* The map callback of ensureCampaignPositions.
placeCampaign(campaign, index, count, viewport) ==
    LET bounds == campaignBounds(viewport)
        at == IF needsSeed(campaign) THEN seed(viewport, index, count)
              ELSE [x |-> campaign.x, y |-> campaign.y]
        clampedX == clamp(at.x, bounds.minX, bounds.maxX)
        clampedY == clamp(at.y, bounds.minY, bounds.maxY)
    IN [campaign |-> [k \in DOMAIN campaign \cup {"x", "y"} |->
                         IF k = "x" THEN clampedX
                         ELSE IF k = "y" THEN clampedY ELSE campaign[k]],
        didChange |-> needsSeed(campaign) \/ clampedX # at.x \/ clampedY # at.y]

\* ensureCampaignPositions: threw is TRUE when state.campaigns is missing or an
\* entry of it is null; the new object takes the address env.ref.
ensureCampaignPositions(s, viewport, env) ==
    IF ~Has(s, "campaigns") \/ \E i \in 1..Len(s.campaigns) : ~IsObject(s.campaigns[i])
    THEN [threw |-> TRUE, state |-> s]
    ELSE IF s.campaigns = <<>> THEN [threw |-> FALSE, state |-> s]
    ELSE LET count == Len(s.campaigns)
             placed == [k \in 1..count |->
                           placeCampaign(s.campaigns[k], k - 1, count, viewport)]
             didChange == \E k \in 1..count : placed[k].didChange
         IN [threw |-> FALSE,
             state |-> IF didChange
                       THEN [s EXCEPT !.campaigns = [k \in 1..count |-> placed[k].campaign],
                                      !.ref = env.ref]
                       ELSE s]

\* The character code of a token, for comparing and hashing ids: a token stands
\* for one character.
charCodeAt(token) ==
    CASE token = "a" -> 97
      [] token = "b" -> 98
      [] token = "|" -> 124
      [] OTHER -> 99

\* a < b as strings.
RECURSIVE stringLess(_, _)
stringLess(a, b) ==
    IF b = <<>> THEN FALSE
    ELSE IF a = <<>> THEN TRUE
    ELSE IF charCodeAt(Head(a)) # charCodeAt(Head(b))
    THEN charCodeAt(Head(a)) < charCodeAt(Head(b))
    ELSE stringLess(Tail(a), Tail(b))

\* ids with id inserted before the first entry that is greater.
RECURSIVE insertSorted(_, _)
insertSorted(ids, id) ==
    IF ids = <<>> THEN <<id>>
    ELSE IF stringLess(id, Head(ids)) THEN <<id>> \o ids
    ELSE <<Head(ids)>> \o insertSorted(Tail(ids), id)

\* [...ids].sort()
RECURSIVE sort(_)
sort(ids) == IF ids = <<>> THEN <<>> ELSE insertSorted(sort(Tail(ids)), Head(ids))

\* ids.join("|")
RECURSIVE join(_)
join(ids) ==
    IF ids = <<>> THEN <<>>
    ELSE IF Len(ids) = 1 THEN Head(ids)
    ELSE Head(ids) \o <<"|">> \o join(Tail(ids))

membershipKey(project) == join(sort(project.campaignIds))

\* A 32-bit integer as two 16-bit halves (of its two's complement), so that
\* no intermediate value leaves the range of the checker's integers.
Int32(hi, lo) == [hi |-> hi, lo |-> lo]

\* ((hash << 5) - hash + code) | 0
hashStep(hash, code) ==
    LET low == hash.lo * 31 + code
    IN Int32((hash.hi * 31 + low \div 65536) % 65536, low % 65536)

\* The loop of hashToUnit over the rest of the seed.
RECURSIVE hashFrom(_, _)
hashFrom(hash, seedText) ==
    IF seedText = <<>> THEN hash
    ELSE hashFrom(hashStep(hash, charCodeAt(Head(seedText))), Tail(seedText))

\* Math.abs(hash % 1000), the unit in thousandths.
hashToUnit(seedText) ==
    LET hash == hashFrom(Int32(0, 0), seedText)
    IN IF hash.hi < 32768 THEN (hash.hi * 65536 + hash.lo) % 1000
       ELSE ((65536 - hash.hi) * 536 - hash.lo) % 1000

\* 1000 * cos and 1000 * sin of a direction given in steps of 30 degrees: the
\* angle of a project around its centroid is rounded to the nearest step.
cosStep1000 == <<1000, 866, 500, 0, -500, -866, -1000, -866, -500, 0, 500, 866>>

sinStep1000 == <<0, 500, 866, 1000, 866, 500, 0, -500, -866, -1000, -866, -500>>

\* baseAngle + (2 * Math.PI * groupIndex) / group.length, as a step of 30 degrees.
angleStep(key, groupIndex, groupLength) ==
    LET degrees == (hashToUnit(key) * 360) \div 1000 + (360 * groupIndex) \div groupLength
    IN ((degrees + 15) \div 30) % 12

spreadRadiusAlways(groupLength) == 28 + Min(46, groupLength * 6)

spreadRadius(groupLength) == IF groupLength > 1 THEN 28 + Min(46, groupLength * 6) ELSE 0

\* A fraction of a pixel.
Frac(num, den) == [kind |-> "number", num |-> num, den |-> den]

\* The number a coordinate contributes to a sum: null counts as 0.
toNumber(value) ==
    IF value.kind = "number" THEN value ELSE IF value.kind = "null" THEN Num(0) ELSE NaN

\* campaignById.get(id): the last campaign that carries the id, or Null.
getCampaign(campaigns, id) ==
    LET hits == SelectSeq(campaigns, LAMBDA c : Field(c, "id") = id)
    IN IF hits = <<>> THEN Null ELSE hits[Len(hits)]

RECURSIVE sumOf(_, _)
sumOf(points, key) ==
    IF points = <<>> THEN Num(0)
    ELSE LET head == toNumber(coordinate(Head(points), key))
             rest == sumOf(Tail(points), key)
         IN IF head.kind = "number" /\ rest.kind = "number"
            THEN Num(head.value + rest.value) ELSE NaN

\* A sum or a viewport side over a count.
over(total, count) == IF total.kind = "number" THEN Frac(total.value, count) ELSE NaN

centroidFromCampaigns(campaigns, campaignIds, viewport) ==
    LET points == SelectSeq([k \in 1..Len(campaignIds) |->
                                getCampaign(campaigns, campaignIds[k])],
                            LAMBDA c : c # Null)
    IN IF points = <<>>
       THEN [x |-> over(viewport.width, 2), y |-> over(viewport.height, 2)]
       ELSE [x |-> over(sumOf(points, "x"), Len(points)),
             y |-> over(sumOf(points, "y"), Len(points))]

\* clamp(value + offset, min, max) for a fraction value and whole pixels.
clampOffset(value, offset, min, max) ==
    IF value.kind # "number" \/ min.kind # "number" \/ max.kind # "number" THEN NaN
    ELSE LET num == value.num + offset * value.den
             inner == IF max.value * value.den < num THEN Frac(max.value, 1)
                      ELSE Frac(num, value.den)
         IN IF min.value * inner.den > inner.num THEN Frac(min.value, 1) ELSE inner

\* The ids of the projects that share the key, in project order.
groupOf(projects, key) ==
    LET members == SelectSeq(projects, LAMBDA p : membershipKey(p) = key)
    IN [k \in 1..Len(members) |-> Field(members[k], "id")]

\* Math.max(0, group.indexOf(id))
indexOf(group, id) ==
    LET at == {k \in 1..Len(group) : group[k] = id}
    IN IF at = {} THEN 0 ELSE (CHOOSE k \in at : \A m \in at : k <= m) - 1

\* The position computeProjectPositions sets for one project.
projectPosition(s, project, viewport) ==
    LET key == membershipKey(project)
        group == groupOf(s.projects, key)
        groupIndex == indexOf(group, Field(project, "id"))
        centroid == centroidFromCampaigns(s.campaigns, project.campaignIds, viewport)
        radius == spreadRadius(Len(group))
        step == angleStep(key, groupIndex, Len(group)) + 1
        bounds == projectBounds(viewport)
    IN [x |-> clampOffset(centroid.x, truncDiv(cosStep1000[step] * radius, 1000),
                          bounds.minX, bounds.maxX),
        y |-> clampOffset(centroid.y, truncDiv(sinStep1000[step] * radius, 1000),
                          bounds.minY, bounds.maxY)]

\* computeProjectPositions: threw is TRUE when campaigns or projects is missing,
\* an entry is null or a project has no campaignIds; positions is the Map as a
\* function from project id to the position set last for that id.
computeProjectPositions(s, viewport) ==
    IF \/ ~Has(s, "campaigns") \/ ~Has(s, "projects")
       \/ \E i \in 1..Len(s.campaigns) : ~IsObject(s.campaigns[i])
       \/ \E i \in 1..Len(s.projects) :
             ~IsObject(s.projects[i]) \/ ~Has(s.projects[i], "campaignIds")
    THEN [threw |-> TRUE, positions |-> <<>>]
    ELSE [threw |-> FALSE,
          positions |->
              [id \in {Field(s.projects[i], "id") : i \in 1..Len(s.projects)} |->
                  LET writers == SelectSeq(s.projects, LAMBDA p : Field(p, "id") = id)
                  IN projectPosition(s, writers[Len(writers)], viewport)]]

\* ------------------------------------------------------------------ inputs
UnknownId == <<"nope">>

Ends(seq) == IF seq = <<>> THEN {} ELSE {seq[1], seq[Len(seq)]}

CampaignTargets(s) == {c.id : c \in Ends(s.campaigns)} \cup {UnknownId}

ProjectTargets(s) == {p.id : p \in Ends(s.projects)} \cup {UnknownId}

rcWriting ==
    [id |-> <<"a">>, name |-> <<"Writing">>, color |-> <<"sp", "#111111">>,
     x |-> Num(1), y |-> Num(2), currentMission |-> <<"Ship", "sp", "v1">>,
     previousMission |-> <<"Ship", "sp", "v0">>]

rcBuilding ==
    [id |-> <<"sp", "b", "sp">>, name |-> <<"sp">>, x |-> NaN,
     currentMission |-> <<"sp", "Draft", "sp">>]

rcNoId == [name |-> <<"Learning">>, color |-> Undefined]

rcRepeat == [id |-> <<"a">>, name |-> <<"Again">>]

rcPad == [name |-> <<"Pad">>]

rpNovella ==
    [id |-> <<"p1">>, name |-> <<"sp", "Novella">>, mode |-> LAUNCHABLE,
     link |-> <<"docs.new", "sp">>, campaignIds |-> << <<"a">> >>]

rpDesk ==
    [id |-> <<"p2">>, name |-> <<"Desk">>, mode |-> PHYSICAL, linkType |-> <<"web">>,
     link |-> <<"https://", "x.org">>,
     campaignIds |-> << <<"a">>, <<"b">>, <<"a">>, <<"zzz">> >>]

rpGhost == [id |-> <<"p3">>, name |-> <<"Ghost">>, campaignIds |-> << <<"zzz">> >>]

rpBare == [mode |-> <<"archived">>, campaignIds |-> << <<>>, <<"b">> >>]

rpVault ==
    [id |-> <<"sp", "p4">>, name |-> <<"Vault">>, linkType |-> <<"bogus">>,
     link |-> <<"sp", "obsidian://", "vault">>, campaignIds |-> << <<"b">> >>]

rpBooks ==
    [id |-> <<"p1">>, name |-> <<"Books">>, linkType |-> <<"custom">>,
     link |-> <<GOOGLE_PLAY_BOOKS_READER, "id=X", "pg=1">>, campaignIds |-> << <<"a">> >>]

rpNoList == [id |-> <<"p6">>, name |-> <<"Loose">>, link |-> <<"foo://", "x">>]

Padded(n) == <<rcWriting, rcBuilding>> \o [i \in 1..n |-> rcPad]

RawStates ==
    {NonObject,
     [updatedAt |-> <<"sp">>],
     [campaigns |-> <<>>, projects |-> <<rpNovella>>, updatedAt |-> <<"2024">>],
     [campaigns |-> <<rcWriting>>, projects |-> <<rpNovella, rpDesk>>,
      updatedAt |-> <<"sp", "2024", "sp">>],
     [campaigns |-> <<rcWriting, NonObject, rcBuilding>>,
      projects |-> <<rpNovella, rpDesk>>, updatedAt |-> <<"2024">>],
     [campaigns |-> <<rcWriting, NonObject, rcBuilding>>,
      projects |-> <<rpGhost, NonObject, rpBare, rpVault>>],
     [campaigns |-> <<rcWriting, rcBuilding>>,
      projects |-> <<rpBooks, rpNoList, rpNovella>>, updatedAt |-> <<"2024">>],
     [campaigns |-> <<rcNoId, rcWriting, rcRepeat>>, projects |-> <<rpDesk, rpBare>>,
      updatedAt |-> Undefined]}
    \cup {[campaigns |-> Padded(n), projects |-> <<rpDesk>>, updatedAt |-> <<"2024">>] :
             n \in (MAX_CAMPAIGNS - 3)..(MAX_CAMPAIGNS - 2 + MaxPadding)}

CampaignDrafts ==
    {[name |-> <<"sp">>],
     [name |-> <<"sp", "Writing", "sp">>, color |-> <<"#3f536d">>],
     [name |-> <<"Building">>, x |-> Num(3), y |-> NaN]}

Names == {<<"sp">>, <<"sp", "Building">>}

Missions == {<<"sp">>, <<"Ship", "sp", "v1", "sp">>, <<"Ship", "sp", "v2">>}

Colors == {Undefined, <<"#3f536d">>}

Positions == {[x |-> Num(1), y |-> Num(2)], [x |-> Num(4), y |-> NaN]}

Memberships(s) ==
    {<<>>, <<UnknownId>>}
    \cup (IF s.campaigns = <<>> THEN {}
          ELSE {<<s.campaigns[1].id>>,
                <<s.campaigns[Len(s.campaigns)].id, <<>>, s.campaigns[1].id,
                  s.campaigns[Len(s.campaigns)].id, UnknownId>>})

Modes == {<<"archived">>, PHYSICAL, LAUNCHABLE}

Links ==
    {[x |-> Undefined],
     [link |-> <<"sp">>],
     [link |-> <<"docs.new">>],
     [link |-> <<"obsidian://", "vault">>],
     [linkType |-> <<"obsidian">>, link |-> <<"sp", "vault">>]}

ProjectDrafts(s) ==
    {l @@ [name |-> <<"sp", "Novella", "sp">>, mode |-> m, campaignIds |-> ids] :
        l \in Links, m \in Modes,
        ids \in {IF s.campaigns = <<>> THEN <<UnknownId>> ELSE <<s.campaigns[1].id>>}}
    \cup {[name |-> <<"Desk">>, mode |-> PHYSICAL, campaignIds |-> ids] : ids \in Memberships(s)}
    \cup {[name |-> <<"sp">>, mode |-> PHYSICAL, campaignIds |-> ids] :
             ids \in {m \in Memberships(s) : Len(m) = 1}}
    \cup {[name |-> <<"Loose">>, link |-> <<"foo://", "x">>, linkType |-> <<"custom">>]}

ProjectPatches(s) ==
    {[x |-> Undefined],
     [name |-> <<"sp">>],
     [name |-> <<"Renamed", "sp">>],
     [mode |-> PHYSICAL],
     [mode |-> LAUNCHABLE],
     [link |-> <<"sp">>],
     [linkType |-> <<"obsidian">>, link |-> <<"obsidian://", "v">>],
     [mode |-> <<"archived">>, link |-> <<"docs.new">>, linkType |-> Undefined]}
    \cup {[campaignIds |-> ids] : ids \in Memberships(s)}
    \cup {[name |-> <<"Renamed">>, mode |-> PHYSICAL, campaignIds |-> <<UnknownId, <<>> >>]}

\* ----------------------------------------------------------------- transfer
EXPORT_FORMAT == <<"ops-map-export">>

EXPORT_VERSION == 1

\* A text is modelled by what JSON.parse makes of it: NotJson does not parse, any
\* other text parses to its value. A parsed value that is not a plain object (an
\* array, null, a number, a string) is NonObject; a property that does not hold
\* a list is a missing field, as in normalizeState.
NotJson == [json |-> FALSE]

JsonText(value) == [json |-> TRUE, value |-> value]

StringKeys ==
    {"id", "name", "color", "currentMission", "previousMission", "mode", "linkType",
     "link", "updatedAt", "format", "exportedAt"}

NumberKeys == {"x", "y"}

jsonNumberNulled(value) == Null

\* JSON.stringify of a number: NaN and the infinities are written as null.
jsonNumber(value) == IF value.kind = "number" THEN value ELSE Null

\* JSON.stringify followed by JSON.parse on an entry of campaigns or projects:
\* null stays null, a property holding undefined is left out, the rest is copied.
jsonObject(obj) ==
    IF ~IsObject(obj) THEN NonObject
    ELSE [k \in {key \in DOMAIN obj :
                    /\ key \in StringKeys => obj[key] # Undefined
                    /\ key \in NumberKeys => obj[key].kind # "undefined"} |->
             IF k \in NumberKeys THEN jsonNumber(obj[k]) ELSE obj[k]]

\* The same on a state: the parsed copy is a new object without an address.
jsonState(s) ==
    [k \in {key \in DOMAIN s \ {"ref"} : key \in StringKeys => s[key] # Undefined} |->
        IF k \in {"campaigns", "projects"}
        THEN [i \in 1..Len(s[k]) |-> jsonObject(s[k][i])]
        ELSE s[k]]

buildExportPayload(s, env) ==
    [format |-> EXPORT_FORMAT,
     version |-> EXPORT_VERSION,
     exportedAt |-> toISOString(env.now),
     state |-> s]

serializeExportPayload(payload) ==
    JsonText([k \in DOMAIN payload |->
                 IF k = "state" THEN jsonState(payload.state) ELSE payload[k]])

\* The leading tokens of the strings Date.parse reads as a date.
DateTokens == {"T", "2024"}

isIsoDateString(value) == IsString(value) /\ value # <<>> /\ Head(value) \in DateTokens

ensureObject(value) == IsObject(value)

countStateEntities(s) ==
    [campaigns |-> IF Has(s, "campaigns") THEN Len(s.campaigns) ELSE 0,
     projects |-> IF Has(s, "projects") THEN Len(s.projects) ELSE 0]

hasValidStateShape(s) == ensureObject(s) /\ Has(s, "campaigns") /\ Has(s, "projects")

versionAny(parsed) == TRUE

versionMatches(parsed) == Has(parsed, "version") /\ parsed.version = EXPORT_VERSION

importError(message) == [threw |-> TRUE, message |-> message]

parseImportPayload(rawText) ==
    IF ~rawText.json THEN importError(<<"This file is not valid JSON.">>)
    ELSE LET parsed == rawText.value
         IN IF ~ensureObject(parsed)
            THEN importError(<<"Import file must be a JSON object.">>)
            ELSE IF Field(parsed, "format") # EXPORT_FORMAT
            THEN importError(<<"Unsupported import format.">>)
            ELSE IF ~versionMatches(parsed)
            THEN importError(<<"Unsupported export version.">>)
            ELSE IF ~isIsoDateString(Field(parsed, "exportedAt"))
            THEN importError(<<"Import file is missing a valid exported timestamp.">>)
            ELSE IF ~(Has(parsed, "state") /\ hasValidStateShape(parsed.state))
            THEN importError(<<"Import file state payload is malformed.">>)
            ELSE [threw |-> FALSE,
                  payload |-> parsed,
                  summary |-> countStateEntities(parsed.state)]

\* ------------------------------------------------------------ state machine
Env == [now |-> clock, ref |-> nextRef, id |-> nextId]

BootEnv == [now |-> 0, ref |-> 0, id |-> 0]

\* No panel is open.
NoPanel == [kind |-> "none"]

\* dragSession = null and dragFrameId = null.
NoDrag == [session |-> FALSE, frame |-> FALSE]

\* Nothing is stored under the key.
NoValue == [value |-> FALSE]

\* No other window is open.
NoWindow == [open |-> FALSE]

Init ==
    /\ state = createEmptyState(BootEnv)
    /\ saveTimer = FALSE
    /\ clock = 0
    /\ nextId = 1
    /\ nextRef = 1
    /\ pc = "boot"
    /\ steps = 0
    /\ last = [op |-> "none"]
    /\ panel = NoPanel
    /\ drag = NoDrag
    /\ stored = NoValue
    /\ inbox = <<>>
    /\ peer = NoWindow

\* applyState(nextState, { persist }) together with the bookkeeping of the model.
applyState(nextState, persist, record) ==
    /\ steps < MaxSteps
    /\ state' = nextState
    /\ saveTimer' = (saveTimer \/ (nextState.ref # state.ref /\ persist))
    /\ nextRef' = IF nextState.ref = nextRef THEN nextRef + 1 ELSE nextRef
    /\ last' = record @@ [pre |-> state]
    /\ steps' = steps + 1
    /\ clock' = clock

Tick ==
    /\ steps < MaxSteps
    /\ clock' = clock + 1
    /\ steps' = steps + 1
    /\ last' = [op |-> "tick"]
    /\ UNCHANGED <<state, saveTimer, nextId, nextRef, pc, panel, background>>

Initialize ==
    /\ pc = "boot"
    /\ \E raw \in RawStates :
          /\ applyState(normalizeState(raw, Env), FALSE, [op |-> "initialize", raw |-> raw])
          /\ nextId' = nextId + Len(IF Has(raw, "campaigns") THEN raw.campaigns ELSE <<>>)
                              + Len(IF Has(raw, "projects") THEN raw.projects ELSE <<>>)
    /\ pc' = "ready"
    /\ UNCHANGED <<panel, background>>

AddCampaign ==
    /\ pc = "ready"
    /\ \E draft \in CampaignDrafts :
          applyState(addCampaign(state, draft, Env), TRUE,
                     [op |-> "addCampaign", draft |-> draft])
    /\ nextId' = nextId + 1
    /\ UNCHANGED <<pc, panel, background>>

RenameCampaign ==
    /\ pc = "ready"
    /\ \E id \in CampaignTargets(state), name \in Names :
          applyState(renameCampaign(state, id, name, Env), TRUE,
                     [op |-> "renameCampaign", id |-> id, text |-> name])
    /\ UNCHANGED <<nextId, pc, panel, background>>

UpdateCampaignColor ==
    /\ pc = "ready"
    /\ \E id \in CampaignTargets(state), color \in Colors :
          applyState(updateCampaignColor(state, id, color, Env), TRUE,
                     [op |-> "updateCampaignColor", id |-> id, text |-> color])
    /\ UNCHANGED <<nextId, pc, panel, background>>

RepositionCampaign ==
    /\ pc = "ready"
    /\ \E id \in CampaignTargets(state), position \in Positions :
          applyState(repositionCampaign(state, id, position, Env), TRUE,
                     [op |-> "repositionCampaign", id |-> id, position |-> position])
    /\ UNCHANGED <<nextId, pc, panel, background>>

UpdateCampaignMission ==
    /\ pc = "ready"
    /\ \E id \in CampaignTargets(state), mission \in Missions :
          applyState(updateCampaignMission(state, id, mission, Env), TRUE,
                     [op |-> "updateCampaignMission", id |-> id, text |-> mission])
    /\ UNCHANGED <<nextId, pc, panel, background>>

DeleteCampaign ==
    /\ pc = "ready"
    /\ \E id \in CampaignTargets(state) :
          applyState(deleteCampaign(state, id, Env), TRUE,
                     [op |-> "deleteCampaign", id |-> id])
    /\ UNCHANGED <<nextId, pc, panel, background>>

AddProject ==
    /\ pc = "ready"
    /\ \E draft \in ProjectDrafts(state) :
          applyState(addProject(state, draft, Env), TRUE,
                     [op |-> "addProject", draft |-> draft])
    /\ nextId' = nextId + 1
    /\ UNCHANGED <<pc, panel, background>>

UpdateProject ==
    /\ pc = "ready"
    /\ \E id \in ProjectTargets(state), patch \in ProjectPatches(state) :
          applyState(updateProject(state, id, patch, Env), TRUE,
                     [op |-> "updateProject", id |-> id, patch |-> patch])
    /\ UNCHANGED <<nextId, pc, panel, background>>

DeleteProject ==
    /\ pc = "ready"
    /\ \E id \in ProjectTargets(state) :
          applyState(deleteProject(state, id, Env), TRUE,
                     [op |-> "deleteProject", id |-> id])
    /\ UNCHANGED <<nextId, pc, panel, background>>

Next ==
    \/ Tick
    \/ Initialize
    \/ AddCampaign
    \/ RenameCampaign
    \/ UpdateCampaignColor
    \/ RepositionCampaign
    \/ UpdateCampaignMission
    \/ DeleteCampaign
    \/ AddProject
    \/ UpdateProject
    \/ DeleteProject

Spec == Init /\ [][Next]_vars

\* The board after initialize found nothing in storage: the empty state.
InitEmpty ==
    /\ state = createEmptyState(BootEnv)
    /\ saveTimer = FALSE
    /\ clock = 0
    /\ nextId = 1
    /\ nextRef = 1
    /\ pc = "ready"
    /\ steps = 0
    /\ last = [op |-> "none"]
    /\ panel = NoPanel
    /\ drag = NoDrag
    /\ stored = NoValue
    /\ inbox = <<>>
    /\ peer = NoWindow

NextFromEmpty ==
    \/ Tick
    \/ AddCampaign
    \/ RenameCampaign
    \/ UpdateCampaignColor
    \/ RepositionCampaign
    \/ UpdateCampaignMission
    \/ DeleteCampaign
    \/ AddProject
    \/ UpdateProject
    \/ DeleteProject

SpecFromEmpty == InitEmpty /\ [][NextFromEmpty]_vars

rcNorth == [id |-> <<"a">>, name |-> <<"North">>, x |-> Num(400), y |-> Num(300)]

rcSouth == [id |-> <<"b">>, name |-> <<"South">>, x |-> Num(700), y |-> Num(500)]

rcEast == [id |-> <<"c">>, name |-> <<"East">>, x |-> Num(601), y |-> Num(300)]

rpNorthSouth ==
    [id |-> <<"p1">>, name |-> <<"Bridge">>, mode |-> PHYSICAL,
     campaignIds |-> << <<"a">>, <<"b">> >>]

rpSouthNorth ==
    [id |-> <<"p2">>, name |-> <<"Tunnel">>, mode |-> PHYSICAL,
     campaignIds |-> << <<"b">>, <<"a">> >>]

rpNorth ==
    [id |-> <<"p3">>, name |-> <<"Cabin">>, mode |-> PHYSICAL, campaignIds |-> << <<"a">> >>]

rpEastSouth ==
    [id |-> <<"p4">>, name |-> <<"Ferry">>, mode |-> PHYSICAL,
     campaignIds |-> << <<"c">>, <<"b">> >>]

\* Payloads whose normalized form is laid out.
LayoutPayloads ==
    {NonObject,
     [campaigns |-> <<rcWriting, NonObject, rcBuilding>>, projects |-> <<rpNovella, rpDesk>>],
     [campaigns |-> <<rcNorth, rcSouth, rcEast>>,
      projects |-> <<rpNorthSouth, rpSouthNorth, rpNorth, rpEastSouth>>],
     [campaigns |-> <<rcNoId, rcWriting, rcRepeat>>, projects |-> <<rpDesk, rpBare>>],
     [campaigns |-> Padded(MAX_CAMPAIGNS - 2), projects |-> <<rpDesk>>]}

\* Values that were never normalized: no campaigns array; null entries and a
\* project without campaignIds.
MalformedStates ==
    {[version |-> STATE_VERSION, projects |-> <<rpNorth>>, ref |-> 0],
     [version |-> STATE_VERSION, campaigns |-> <<rcNorth, NonObject>>,
      projects |-> <<NonObject, rpNoList, rpNorth>>, ref |-> 0]}

LayoutStates == {normalizeState(raw, BootEnv) : raw \in LayoutPayloads} \cup MalformedStates

Viewports ==
    {[width |-> Num(1200), height |-> Num(800)],
     [width |-> Num(800), height |-> Num(600)],
     [width |-> Num(400), height |-> Num(300)],
     [width |-> NaN, height |-> Num(800)]}

MaxSlotsInputs == {Omitted, Null, NaN, Num(-2), Num(0), Num(2), Num(8)}

\* A board handed to the layout: render reads it, a layout pass may replace it.
InitLayout ==
    /\ state \in LayoutStates
    /\ saveTimer = FALSE
    /\ clock = 0
    /\ nextId = 1
    /\ nextRef = 1
    /\ pc = "layout"
    /\ steps = 0
    /\ last = [op |-> "none"]
    /\ panel = NoPanel
    /\ drag = NoDrag
    /\ stored = NoValue
    /\ inbox = <<>>
    /\ peer = NoWindow

\* The bookkeeping of a layout call that leaves the board as it is.
readBoard(record) ==
    /\ steps < MaxPasses
    /\ steps' = steps + 1
    /\ last' = record @@ [pre |-> state]
    /\ UNCHANGED <<state, saveTimer, clock, nextId, nextRef, pc, panel, background>>

BuildCampaignSlots ==
    \E maxSlots \in MaxSlotsInputs :
        readBoard([op |-> "buildCampaignSlots", maxSlots |-> maxSlots,
                   slots |-> buildCampaignSlots(state, maxSlots)])

BuildProjectsByCampaign ==
    \E maxSlots \in MaxSlotsInputs :
        readBoard([op |-> "buildProjectsByCampaign", maxSlots |-> maxSlots,
                   threw |-> buildProjectsByCampaign(state, maxSlots).threw,
                   map |-> buildProjectsByCampaign(state, maxSlots).map])

ComputeProjectPositions ==
    \E viewport \in Viewports :
        readBoard([op |-> "computeProjectPositions", viewport |-> viewport,
                   threw |-> computeProjectPositions(state, viewport).threw,
                   positions |-> computeProjectPositions(state, viewport).positions])

\* state = ensureCampaignPositions(nextState, getViewport())
EnsureCampaignPositions ==
    /\ steps < MaxPasses
    /\ \E viewport \in Viewports :
          LET positioned == ensureCampaignPositions(state, viewport, Env)
          IN /\ state' = positioned.state
             /\ nextRef' = IF positioned.state.ref = nextRef THEN nextRef + 1 ELSE nextRef
             /\ last' = [op |-> "ensureCampaignPositions", viewport |-> viewport,
                         threw |-> positioned.threw, pre |-> state]
    /\ steps' = steps + 1
    /\ UNCHANGED <<saveTimer, clock, nextId, pc, panel, background>>

NextLayout ==
    \/ BuildCampaignSlots
    \/ BuildProjectsByCampaign
    \/ EnsureCampaignPositions
    \/ ComputeProjectPositions

SpecLayout == InitLayout /\ [][NextLayout]_vars

\* ------------------------------------------------------- transfer machine
\* The state of a file edited by hand: a null campaign, names to trim.
ForeignState ==
    [campaigns |-> <<rcWriting, NonObject, rcBuilding>>,
     projects |-> <<rpNovella, rpDesk>>,
     updatedAt |-> <<"2024">>]

envelope(format, version, exportedAt) ==
    [format |-> format, version |-> version, exportedAt |-> exportedAt]

\* The files the user can pick: the export of the current board, a file edited
\* by hand, and files that break one rule of the envelope each.
ImportTexts(s, env) ==
    {serializeExportPayload(buildExportPayload(s, env)),
     JsonText(envelope(EXPORT_FORMAT, EXPORT_VERSION, <<"2024">>)
                  @@ [state |-> ForeignState]),
     NotJson,
     JsonText(NonObject),
     JsonText([version |-> EXPORT_VERSION, exportedAt |-> <<"2024">>,
               state |-> ForeignState]),
     JsonText(envelope(<<"ops-map">>, EXPORT_VERSION, <<"2024">>)
                  @@ [state |-> ForeignState]),
     JsonText(envelope(EXPORT_FORMAT, EXPORT_VERSION + 1, <<"2024">>)
                  @@ [state |-> ForeignState]),
     JsonText(envelope(EXPORT_FORMAT, EXPORT_VERSION, <<"yesterday">>)
                  @@ [state |-> ForeignState]),
     JsonText([format |-> EXPORT_FORMAT, version |-> EXPORT_VERSION,
               state |-> ForeignState]),
     JsonText(envelope(EXPORT_FORMAT, EXPORT_VERSION, <<"2024">>)),
     JsonText(envelope(EXPORT_FORMAT, EXPORT_VERSION, <<"2024">>)
                  @@ [state |-> NonObject]),
     JsonText(envelope(EXPORT_FORMAT, EXPORT_VERSION, <<"2024">>)
                  @@ [state |-> [projects |-> <<rpDesk>>, updatedAt |-> <<"2024">>]]),
     JsonText(envelope(EXPORT_FORMAT, EXPORT_VERSION, <<"2024">>)
                  @@ [state |-> [campaigns |-> <<rcWriting>>]])}

incomingStateUnnormalized(parsedImport, env) ==
    parsedImport.payload.state @@ [ref |-> env.ref]

\* normalizedIncomingState = normalizeState(parsedImport.payload.state)
incomingState(parsedImport, env) == normalizeState(parsedImport.payload.state, env)

\* exportStateToFile: the text handed to the download.
ExportStateToFile ==
    /\ pc = "ready"
    /\ steps < MaxSteps
    /\ steps' = steps + 1
    /\ last' = [op |-> "exportStateToFile",
                text |-> serializeExportPayload(buildExportPayload(state, Env)),
                pre |-> state]
    /\ UNCHANGED <<state, saveTimer, clock, nextId, nextRef, pc, panel, background>>

\* handleImportFileSelection: a failed parse opens the information panel, a
\* parsed file opens the confirmation panel on the normalized incoming state.
HandleImportFileSelection ==
    /\ pc = "ready"
    /\ steps < MaxSteps
    /\ \E rawText \in ImportTexts(state, Env) :
          LET parsedImport == parseImportPayload(rawText)
          IN /\ panel' = IF parsedImport.threw
                         THEN [kind |-> "info", title |-> <<"Import Failed">>,
                               message |-> parsedImport.message]
                         ELSE [kind |-> "importConfirmation",
                               incomingState |-> incomingState(parsedImport, Env)]
             /\ nextRef' = IF parsedImport.threw THEN nextRef ELSE nextRef + 1
             /\ nextId' = IF parsedImport.threw THEN nextId
                          ELSE nextId + parsedImport.summary.campaigns
                                      + parsedImport.summary.projects
             /\ last' = [op |-> "handleImportFileSelection", rawText |-> rawText,
                         threw |-> parsedImport.threw, env |-> Env,
                         saveTimer |-> saveTimer, pre |-> state]
    /\ steps' = steps + 1
    /\ UNCHANGED <<state, saveTimer, clock, pc, background>>

\* The click on "Replace Current Map": applyState(incomingState); closePanel().
ReplaceCurrentMap ==
    /\ pc = "ready"
    /\ panel.kind = "importConfirmation"
    /\ applyState(panel.incomingState, TRUE, [op |-> "replaceCurrentMap"])
    /\ panel' = NoPanel
    /\ UNCHANGED <<nextId, pc, background>>

\* The click on "Cancel": closePanel().
CancelImport ==
    /\ pc = "ready"
    /\ panel.kind = "importConfirmation"
    /\ steps < MaxSteps
    /\ steps' = steps + 1
    /\ panel' = NoPanel
    /\ last' = [op |-> "closePanel", pre |-> state]
    /\ UNCHANGED <<state, saveTimer, clock, nextId, nextRef, pc, background>>

NextTransfer ==
    \/ Next
    \/ ExportStateToFile
    \/ HandleImportFileSelection
    \/ ReplaceCurrentMap
    \/ CancelImport

SpecTransfer == Init /\ [][NextTransfer]_vars

\* ----------------------------------------------------------- drag machine
\* What is stored under the key after saveState(s).
Stored(s) == [value |-> TRUE, state |-> jsonState(s)]

\* The window of the drags: every position below lies inside its bounds.
DragViewport == [width |-> Num(1200), height |-> Num(800)]

DragBoards ==
    {normalizeState([campaigns |-> <<rcNorth, rcSouth>>, projects |-> <<rpNorthSouth>>,
                     updatedAt |-> <<"2024">>], BootEnv),
     normalizeState([campaigns |-> <<rcNorth>>, projects |-> <<rpNorth>>,
                     updatedAt |-> <<"2024">>], BootEnv)}

\* The positions clampCampaignPosition returns for the pointer events.
PointerPositions ==
    {[x |-> Num(400), y |-> Num(300)],
     [x |-> Num(500), y |-> Num(320)],
     [x |-> Num(640), y |-> Num(420)]}

\* Pointer ids; NoPointer is the argument of the blur listener.
PointerIds == {1, 2}

NoPointer == 0

\* The board is as loaded from storage; no drag is in progress.
InitDrag ==
    /\ state \in DragBoards
    /\ stored = Stored(state)
    /\ saveTimer = FALSE
    /\ clock = 0
    /\ nextId = 1
    /\ nextRef = 1
    /\ pc = "ready"
    /\ steps = 0
    /\ last = [op |-> "none"]
    /\ panel = NoPanel
    /\ drag = NoDrag
    /\ inbox = <<>>
    /\ peer = NoWindow

\* applyState of the canvas version: the layout pass, render, and
\* scheduleStateSave when the positioned state is a new object and persist is set.
applyPositionedState(nextState, persist, record) ==
    LET positioned == ensureCampaignPositions(nextState, DragViewport, Env).state
    IN /\ steps < MaxDragRenders
       /\ steps' = steps + 1
       /\ state' = positioned
       /\ saveTimer' = (saveTimer \/ (positioned.ref # state.ref /\ persist))
       /\ nextRef' = IF positioned.ref = nextRef THEN nextRef + 1 ELSE nextRef
       /\ last' = record @@ [pre |-> state, saveTimer |-> saveTimer]

\* startCampaignDrag: the session starts with the campaign's own position pending.
StartCampaignDrag ==
    /\ pc = "ready"
    /\ \E i \in 1..Len(state.campaigns), pointerId \in PointerIds :
          drag' = [session |-> TRUE,
                   campaignId |-> state.campaigns[i].id,
                   pointerId |-> pointerId,
                   pendingPosition |-> [x |-> state.campaigns[i].x,
                                        y |-> state.campaigns[i].y],
                   frame |-> drag.frame]
    /\ last' = [op |-> "startCampaignDrag", pre |-> state]
    /\ UNCHANGED <<state, saveTimer, clock, nextId, nextRef, pc, steps, panel,
                   stored, inbox, peer>>

\* handlePointerMove: a new position becomes pending and a frame is requested.
HandlePointerMove ==
    /\ pc = "ready"
    /\ drag.session
    /\ \E pointerId \in PointerIds, position \in PointerPositions :
          /\ drag.pointerId = pointerId
          /\ position # drag.pendingPosition
          /\ drag' = [drag EXCEPT !.pendingPosition = position, !.frame = TRUE]
    /\ last' = [op |-> "handlePointerMove", pre |-> state]
    /\ UNCHANGED <<state, saveTimer, clock, nextId, nextRef, pc, steps, panel,
                   stored, inbox, peer>>

\* flushDragFrame, the animation-frame callback.
FlushDragFrame ==
    /\ pc = "ready"
    /\ drag.frame
    /\ drag.session
    /\ drag' = [drag EXCEPT !.frame = FALSE]
    /\ applyPositionedState(
           repositionCampaign(state, drag.campaignId, drag.pendingPosition, Env), FALSE,
           [op |-> "flushDragFrame", position |-> drag.pendingPosition,
            id |-> drag.campaignId])
    /\ UNCHANGED <<clock, nextId, pc, panel, stored, inbox, peer>>

\* finalizeCampaignDrag, called on pointer up, pointer cancel and window blur.
FinalizeCampaignDrag ==
    /\ pc = "ready"
    /\ drag.session
    /\ \E pointerId \in PointerIds \cup {NoPointer} :
          pointerId = NoPointer \/ drag.pointerId = pointerId
    /\ drag' = NoDrag
    /\ applyPositionedState(
           repositionCampaign(state, drag.campaignId, drag.pendingPosition, Env), TRUE,
           [op |-> "finalizeCampaignDrag", position |-> drag.pendingPosition,
            id |-> drag.campaignId])
    /\ UNCHANGED <<clock, nextId, pc, panel, stored, inbox, peer>>

NextDrag ==
    \/ Tick
    \/ StartCampaignDrag
    \/ HandlePointerMove
    \/ FlushDragFrame
    \/ FinalizeCampaignDrag

SpecDrag == InitDrag /\ [][NextDrag]_vars

\* ------------------------------------------------------- storage machine
\* A window: its board, its debounce timer and the storage notifications that
\* were fired but not yet handled by its listener.
Window(s, timer, notifications) ==
    [open |-> TRUE, state |-> s, saveTimer |-> timer, inbox |-> notifications]

Self == Window(state, saveTimer, inbox)

\* applyState(nextState, { persist }) in a window.
applied(window, nextState, persist) ==
    [window EXCEPT !.state = nextState,
                   !.saveTimer = window.saveTimer
                                 \/ (nextState.ref # window.state.ref /\ persist)]

\* An edit: the first campaign is renamed and the result applied with persistence.
edited(window, name, env) ==
    applied(window,
            renameCampaign(window.state, window.state.campaigns[1].id, name, env), TRUE)

\* The value handed to the listener: changes[STORAGE_KEY].newValue ?? null,
\* then incomingState || createEmptyState().
incomingOrEmpty(notification, env) ==
    IF notification.value THEN notification.state
    ELSE jsonState(createEmptyState(env))

sameStampNever(normalized, current) == FALSE

\* normalized.updatedAt === state.updatedAt
sameStamp(normalized, current) == normalized.updatedAt = current.updatedAt

\* The listener of subscribeToStateChanges on the oldest pending notification.
delivered(window, env) ==
    LET normalized == normalizeState(incomingOrEmpty(Head(window.inbox), env), env)
        rest == [window EXCEPT !.inbox = Tail(window.inbox)]
    IN IF sameStamp(normalized, window.state) THEN rest
       ELSE applied(rest, normalized, FALSE)

\* chrome.storage.onChanged: every open window, the writer included, is told
\* the new value when the stored value changed.
notified(window, value) ==
    IF window.open /\ value # stored
    THEN [window EXCEPT !.inbox = Append(window.inbox, value)]
    ELSE window

\* The callback of the debounce timer cleared.
timerFired(window) == [window EXCEPT !.saveTimer = FALSE]

setSelf(window) ==
    /\ state' = window.state
    /\ saveTimer' = window.saveTimer
    /\ inbox' = window.inbox

SyncNames == {<<"Alpha">>, <<"Beta">>}

SyncBoard ==
    normalizeState([campaigns |-> <<rcWriting>>, projects |-> <<rpNovella>>,
                    updatedAt |-> <<"2024">>], BootEnv)

\* What the listener may be told by a writer that is not this program.
ForeignValues ==
    {NoValue,
     [value |-> TRUE, state |-> ForeignState],
     [value |-> TRUE,
      state |-> [campaigns |-> <<rcBuilding>>, projects |-> <<>>,
                 updatedAt |-> <<"2024">>]]}

\* One window, initialized from the stored board.
InitSingleWindow ==
    /\ state = SyncBoard
    /\ stored = Stored(SyncBoard)
    /\ saveTimer = FALSE
    /\ clock = 0
    /\ nextId = 1
    /\ nextRef = 1
    /\ pc = "ready"
    /\ steps = 0
    /\ last = [op |-> "none", edited |-> FALSE, latest |-> SyncBoard]
    /\ panel = NoPanel
    /\ drag = NoDrag
    /\ inbox = <<>>
    /\ peer = NoWindow

\* Two windows, both initialized from the stored board.
InitTwoWindows ==
    /\ state = SyncBoard
    /\ stored = Stored(SyncBoard)
    /\ saveTimer = FALSE
    /\ clock = 0
    /\ nextId = 1
    /\ nextRef = 1
    /\ pc = "ready"
    /\ steps = 0
    /\ last = [op |-> "none", edited |-> FALSE, latest |-> SyncBoard]
    /\ panel = NoPanel
    /\ drag = NoDrag
    /\ inbox = <<>>
    /\ peer = Window(SyncBoard, FALSE, <<>>)

\* The wall clock advances.
SyncTick ==
    /\ steps < MaxSyncSteps
    /\ steps' = steps + 1
    /\ clock' = clock + 1
    /\ last' = [op |-> "tick", edited |-> last.edited, latest |-> last.latest]
    /\ UNCHANGED <<state, saveTimer, nextId, nextRef, pc, panel, drag, stored, inbox, peer>>

\* An edit in this window.
LocalEdit ==
    /\ steps < MaxSyncSteps
    /\ state.campaigns # <<>>
    /\ \E name \in SyncNames :
          LET window == edited(Self, name, Env)
          IN /\ setSelf(window)
             /\ last' = [op |-> "edit", pre |-> state,
                         edited |-> last.edited \/ window.state.ref # state.ref,
                         latest |-> IF window.state.ref # state.ref THEN window.state
                                    ELSE last.latest]
    /\ steps' = steps + 1
    /\ nextRef' = nextRef + 1
    /\ UNCHANGED <<clock, nextId, pc, panel, drag, stored, peer>>

\* The debounce timer of this window fires, SAVE_DEBOUNCE_MS after it was set:
\* the clock is past the stamp of the edit that set it. saveState(state).
SaveTimerFires ==
    /\ saveTimer
    /\ clock' = clock + 1
    /\ stored' = Stored(state)
    /\ setSelf(notified(timerFired(Self), Stored(state)))
    /\ peer' = notified(peer, Stored(state))
    /\ last' = [op |-> "saveState", pre |-> state, edited |-> last.edited,
                latest |-> last.latest]
    /\ UNCHANGED <<nextId, nextRef, pc, steps, panel, drag>>

\* The storage listener of this window handles a notification.
DeliverNotification ==
    /\ inbox # <<>>
    /\ setSelf(delivered(Self, Env))
    /\ nextRef' = nextRef + 1
    /\ last' = [op |-> "storageChanged", notification |-> Head(inbox), env |-> Env,
                pre |-> state, saveTimer |-> saveTimer, edited |-> last.edited,
                latest |-> last.latest]
    /\ UNCHANGED <<clock, nextId, pc, steps, panel, drag, stored, peer>>

\* An edit in the other window.
PeerEdit ==
    /\ steps < MaxSyncSteps
    /\ peer.open
    /\ peer.state.campaigns # <<>>
    /\ \E name \in SyncNames : peer' = edited(peer, name, Env)
    /\ steps' = steps + 1
    /\ nextRef' = nextRef + 1
    /\ last' = [op |-> "peerEdit", edited |-> last.edited, latest |-> last.latest]
    /\ UNCHANGED <<state, saveTimer, clock, nextId, pc, panel, drag, stored, inbox>>

\* The debounce timer of the other window fires.
PeerSaveTimerFires ==
    /\ peer.open
    /\ peer.saveTimer
    /\ clock' = clock + 1
    /\ stored' = Stored(peer.state)
    /\ peer' = notified(timerFired(peer), Stored(peer.state))
    /\ setSelf(notified(Self, Stored(peer.state)))
    /\ last' = [op |-> "peerSaveState", edited |-> last.edited, latest |-> last.latest]
    /\ UNCHANGED <<nextId, nextRef, pc, steps, panel, drag>>

\* The storage listener of the other window handles a notification.
PeerDeliverNotification ==
    /\ peer.open
    /\ peer.inbox # <<>>
    /\ peer' = delivered(peer, Env)
    /\ nextRef' = nextRef + 1
    /\ last' = [op |-> "peerStorageChanged", edited |-> last.edited,
                latest |-> last.latest]
    /\ UNCHANGED <<state, saveTimer, clock, nextId, pc, steps, panel, drag, stored, inbox>>

\* A writer that is not this program sets or removes the stored value.
ForeignWrite ==
    /\ steps < MaxSyncSteps
    /\ \E value \in ForeignValues :
          /\ stored' = value
          /\ setSelf(notified(Self, value))
    /\ steps' = steps + 1
    /\ last' = [op |-> "foreignWrite", edited |-> last.edited, latest |-> last.latest]
    /\ UNCHANGED <<clock, nextId, nextRef, pc, panel, drag, peer>>

NextSingleWindow ==
    \/ SyncTick
    \/ LocalEdit
    \/ SaveTimerFires
    \/ DeliverNotification

NextTwoWindows ==
    \/ NextSingleWindow
    \/ PeerEdit
    \/ PeerSaveTimerFires
    \/ PeerDeliverNotification

NextForeignWriter ==
    \/ NextSingleWindow
    \/ ForeignWrite

SpecSingleWindow == InitSingleWindow /\ [][NextSingleWindow]_vars

SpecTwoWindows == InitTwoWindows /\ [][NextTwoWindows]_vars

SpecForeignWriter == InitSingleWindow /\ [][NextForeignWriter]_vars

\* ------------------------------------------------------------------ claims
IsBlank(text) == text = Undefined \/ \A i \in 1..Len(text) : text[i] = "sp"

\* t is text without its leading and trailing whitespace.
IsTrimOf(t, text) ==
    /\ t = <<>> \/ (t[1] # "sp" /\ t[Len(t)] # "sp")
    /\ \E a, b \in 0..Len(text) : text = Unary(a, "sp") \o t \o Unary(b, "sp")

Op(name) == last.op = name

SameReference == state.ref = last.pre.ref /\ state = last.pre

Ids(seq) == {seq[i].id : i \in 1..Len(seq)}

NoDuplicates(seq) == \A i, j \in 1..Len(seq) : seq[i] = seq[j] => i = j

Without(seq, id) == SelectSeq(seq, LAMBDA e : e.id # id)

\* C1: every project of every reachable snapshot (the output of normalizeState
\* and every snapshot reached from it or from the empty state by the campaign and
\* project mutations) has a non-empty campaignIds list without duplicates, all of
\* whose ids are ids of campaigns of that snapshot.
C1_MembershipValid ==
    \A i \in 1..Len(state.projects) :
        LET ids == state.projects[i].campaignIds
        IN /\ Len(ids) >= 1
           /\ NoDuplicates(ids)
           /\ \A k \in 1..Len(ids) : ids[k] \in Ids(state.campaigns)

\* A campaign deletion that removed an orphaned project and kept another one
\* after stripping the deleted id from its membership.
C1_Witness ==
    /\ Op("deleteCampaign")
    /\ Len(state.projects) >= 1
    /\ Len(state.projects) < Len(last.pre.projects)
    /\ \E i \in 1..Len(last.pre.projects) :
          /\ last.pre.projects[i].id \in Ids(state.projects)
          /\ \E k \in 1..Len(last.pre.projects[i].campaignIds) :
                last.pre.projects[i].campaignIds[k] = last.id

\* C2: no snapshot holds more than MAX_CAMPAIGNS campaigns (normalizeState clamps,
\* no mutation sequence exceeds the cap), and addCampaign on a snapshot that
\* already holds MAX_CAMPAIGNS campaigns returns that same snapshot.
C2_CampaignCap ==
    /\ Len(state.campaigns) <= MAX_CAMPAIGNS
    /\ (Op("addCampaign") /\ Len(last.pre.campaigns) = MAX_CAMPAIGNS) => SameReference

\* addCampaign with a valid name on a full board.
C2_Witness ==
    /\ Op("addCampaign")
    /\ Len(last.pre.campaigns) = MAX_CAMPAIGNS
    /\ ~IsBlank(last.draft.name)

\* C3: deleteCampaign(state, id) for an id that exists removes the campaign with
\* that id and keeps the other campaigns in order and unchanged; it strips id
\* from every project's campaignIds, drops every project left without membership
\* and keeps every other project in order with all other fields unchanged.
C3_DeleteCampaignCascade ==
    (Op("deleteCampaign") /\ last.id \in Ids(last.pre.campaigns)) =>
        LET pre == last.pre
            survivors == {i \in 1..Len(pre.projects) :
                            \E k \in 1..Len(pre.projects[i].campaignIds) :
                                pre.projects[i].campaignIds[k] # last.id}
            position(i) == Cardinality({j \in survivors : j <= i})
        IN /\ last.id \notin Ids(state.campaigns)
           /\ state.campaigns = Without(pre.campaigns, last.id)
           /\ Len(state.projects) = Cardinality(survivors)
           /\ \A i \in survivors :
                 LET before == pre.projects[i]
                     after == state.projects[position(i)]
                 IN /\ [after EXCEPT !.campaignIds = before.campaignIds] = before
                    /\ after.campaignIds
                         = SelectSeq(before.campaignIds, LAMBDA id : id # last.id)
           /\ state.version = pre.version

\* A deletion with another campaign left, a project dropped and a project kept
\* with a shortened membership.
C3_Witness ==
    /\ Op("deleteCampaign")
    /\ last.id \in Ids(last.pre.campaigns)
    /\ Len(state.campaigns) >= 1
    /\ Len(state.projects) >= 1
    /\ Len(state.projects) < Len(last.pre.projects)
    /\ \E i \in 1..Len(state.projects) : state.projects[i] \notin
          {last.pre.projects[j] : j \in 1..Len(last.pre.projects)}

\* The campaigns an updateCampaignMission call is about: position i of the
\* snapshot before the call carries the addressed id.
Addressed(i) == last.pre.campaigns[i].id = last.id

SameSnapshot(a, b) ==
    a.campaigns = b.campaigns /\ a.projects = b.projects /\ a.updatedAt = b.updatedAt

\* C6: normalizeState is idempotent: normalizing the snapshot that normalizeState
\* returned for a raw payload gives a snapshot with the same campaigns, projects
\* and updatedAt.
C6_NormalizeIdempotent ==
    Op("initialize") => SameSnapshot(normalizeState(state, Env), state)

\* A payload with more campaigns than the cap, a missing name and a missing id
\* was normalized.
C6_Witness ==
    /\ Op("initialize")
    /\ Has(last.raw, "campaigns")
    /\ Len(last.raw.campaigns) > MAX_CAMPAIGNS
    /\ \E i \in 1..Len(last.raw.campaigns) : ~Has(last.raw.campaigns[i], "id")
    /\ Len(state.projects) >= 1

\* C7 as stated: in every snapshot (the output of normalizeState and every
\* snapshot reached by addProject and updateProject) a launchable project has a
\* non-empty link and a physical project has the empty link.
C7_ModeLinkConsistent ==
    \A i \in 1..Len(state.projects) :
        /\ state.projects[i].mode = LAUNCHABLE => state.projects[i].link # <<>>
        /\ state.projects[i].mode = PHYSICAL => state.projects[i].link = <<>>

\* The draft names an existing campaign.
DraftHasValidCampaign ==
    /\ Has(last.draft, "campaignIds")
    /\ \E k \in 1..Len(last.draft.campaignIds) :
          last.draft.campaignIds[k] \in Ids(last.pre.campaigns)

\* C8: addProject with mode launchable or an unknown mode and a link that is
\* missing or trims to empty returns the identical snapshot and adds no project.
C8_LaunchableNeedsLink ==
    (/\ Op("addProject")
     /\ Field(last.draft, "mode") # PHYSICAL
     /\ IsBlank(Field(last.draft, "link"))) =>
        /\ SameReference
        /\ Len(state.projects) = Len(last.pre.projects)

\* Such a draft that is otherwise valid: a name and an existing campaign.
C8_Witness ==
    /\ Op("addProject")
    /\ Field(last.draft, "mode") = <<"archived">>
    /\ IsBlank(Field(last.draft, "link"))
    /\ ~IsBlank(Field(last.draft, "name"))
    /\ DraftHasValidCampaign

\* C9: addProject with mode physical, a non-empty name and at least one existing
\* campaign id succeeds whether or not the draft carries a link, and the stored
\* project has the empty link.
C9_PhysicalStoresNoLink ==
    (/\ Op("addProject")
     /\ Field(last.draft, "mode") = PHYSICAL
     /\ ~IsBlank(Field(last.draft, "name"))
     /\ DraftHasValidCampaign) =>
        /\ state.ref # last.pre.ref
        /\ Len(state.projects) = Len(last.pre.projects) + 1
        /\ SubSeq(state.projects, 1, Len(last.pre.projects)) = last.pre.projects
        /\ state.projects[Len(state.projects)].mode = PHYSICAL
        /\ state.projects[Len(state.projects)].link = <<>>

\* A physical draft that supplied a link.
C9_Witness ==
    /\ Op("addProject")
    /\ Field(last.draft, "mode") = PHYSICAL
    /\ ~IsBlank(Field(last.draft, "link"))
    /\ Len(state.projects) = Len(last.pre.projects) + 1

\* C10: updateProject on an existing project with a patch whose campaignIds names
\* no existing campaign removes the project, whatever else the patch holds, and
\* leaves every other project unchanged and in order.
C10_EmptyMembershipDeletes ==
    (/\ Op("updateProject")
     /\ last.id \in Ids(last.pre.projects)
     /\ Has(last.patch, "campaignIds")
     /\ \A k \in 1..Len(last.patch.campaignIds) :
           last.patch.campaignIds[k] \notin Ids(last.pre.campaigns)) =>
        /\ last.id \notin Ids(state.projects)
        /\ state.projects = Without(last.pre.projects, last.id)
        /\ state.campaigns = last.pre.campaigns

\* A patch that also renames and changes the mode, with another project left.
C10_Witness ==
    /\ Op("updateProject")
    /\ last.id \in Ids(last.pre.projects)
    /\ Has(last.patch, "campaignIds")
    /\ Has(last.patch, "name")
    /\ Len(last.patch.campaignIds) >= 1
    /\ Len(state.projects) >= 1
    /\ Len(state.projects) < Len(last.pre.projects)

\* The value updateProject works with for a property: the patch's when the
\* patch carries one, the stored project's otherwise.
Merged(project, key) ==
    IF Field(last.patch, key) # Undefined THEN last.patch[key] ELSE project[key]

\* The projects an updateProject or deleteProject call is about.
Targets == {i \in 1..Len(last.pre.projects) : last.pre.projects[i].id = last.id}

HasValidMembership(project) ==
    \E k \in 1..Len(Merged(project, "campaignIds")) :
        Merged(project, "campaignIds")[k] \in Ids(last.pre.campaigns)

\* C11: updateProject on an existing project whose merged mode is launchable,
\* whose merged link trims to empty and whose merged membership names an
\* existing campaign returns the identical snapshot, so the project keeps its
\* name, mode, link, linkType and campaignIds.
C11_LinklessLaunchableRejected ==
    (/\ Op("updateProject")
     /\ Targets # {}
     /\ \A i \in Targets :
           LET project == last.pre.projects[i]
           IN /\ Merged(project, "mode") \notin {PHYSICAL}
              /\ IsBlank(Merged(project, "link"))
              /\ HasValidMembership(project)) =>
        /\ SameReference
        /\ \A i \in Targets : state.projects[i] = last.pre.projects[i]

\* A launchable project with a link was patched with a blank link.
C11_Witness ==
    /\ Op("updateProject")
    /\ Has(last.patch, "link")
    /\ IsBlank(last.patch.link)
    /\ \E i \in Targets :
          /\ last.pre.projects[i].mode = LAUNCHABLE
          /\ last.pre.projects[i].link # <<>>
          /\ state.projects[i].link = last.pre.projects[i].link

\* C12: every validation rejection returns the identical snapshot: addCampaign
\* with a name that trims to empty or on a board at the campaign cap,
\* renameCampaign with a name that trims to empty, and addProject with a name
\* that trims to empty or with no id of an existing campaign.
C12_RejectionsReturnInput ==
    /\ (/\ Op("addCampaign")
        /\ \/ IsBlank(Field(last.draft, "name"))
           \/ Len(last.pre.campaigns) >= MAX_CAMPAIGNS) => SameReference
    /\ (Op("renameCampaign") /\ IsBlank(last.text)) => SameReference
    /\ (/\ Op("addProject")
        /\ IsBlank(Field(last.draft, "name")) \/ ~DraftHasValidCampaign) => SameReference

\* A physical draft with a blank name and an existing campaign was offered to a
\* board that holds projects.
C12_Witness ==
    /\ Op("addProject")
    /\ IsBlank(Field(last.draft, "name"))
    /\ Field(last.draft, "mode") = PHYSICAL
    /\ DraftHasValidCampaign
    /\ Len(last.pre.projects) >= 1
    /\ state.projects = last.pre.projects

\* The campaigns a campaign mutation is about.
CampaignTargetsOfCall == {i \in 1..Len(last.pre.campaigns) : Addressed(i)}

\* The trimmed and normalized values updateProject derives for a project from
\* the patch and the stored fields equal the stored ones.
ResultingValuesStored(project) ==
    /\ IsTrimOf(project.name, Merged(project, "name"))
    /\ sanitizeProjectMode(Merged(project, "mode")) = project.mode
    /\ sanitizeLinkType(Merged(project, "linkType")) = project.linkType
    /\ project.link = IF project.mode = PHYSICAL THEN <<>>
                      ELSE normalizeProjectLink(Merged(project, "link"), project.linkType)
    /\ {id \in Ids(last.pre.campaigns) :
           \E k \in 1..Len(Merged(project, "campaignIds")) :
               Merged(project, "campaignIds")[k] = id}
         = {project.campaignIds[k] : k \in 1..Len(project.campaignIds)}

\* C13: renameCampaign, updateCampaignMission, repositionCampaign and
\* deleteCampaign with an id of no campaign, and updateProject and deleteProject
\* with an id of no project, return the identical snapshot; so do renameCampaign
\* and updateCampaignMission when the trimmed text equals the stored name or
\* mission, and updateProject when the trimmed and normalized values it derives
\* equal the stored ones.
C13_NoOpReturnsInput ==
    /\ (/\ last.op \in {"renameCampaign", "updateCampaignMission",
                        "repositionCampaign", "deleteCampaign"}
        /\ CampaignTargetsOfCall = {}) => SameReference
    /\ (last.op \in {"updateProject", "deleteProject"} /\ Targets = {}) => SameReference
    /\ (/\ Op("renameCampaign")
        /\ \A i \in CampaignTargetsOfCall :
              IsTrimOf(last.pre.campaigns[i].name, last.text)) => SameReference
    /\ (/\ Op("updateCampaignMission")
        /\ \A i \in CampaignTargetsOfCall :
              IsTrimOf(last.pre.campaigns[i].currentMission, last.text)) => SameReference
    /\ (/\ Op("updateProject")
        /\ \A i \in Targets : ResultingValuesStored(last.pre.projects[i])) => SameReference

\* A patch that lists the two campaigns of a project in another order, with an
\* unknown id and a repeated id among them.
C13_Witness ==
    /\ Op("updateProject")
    /\ Has(last.patch, "campaignIds")
    /\ Len(last.patch.campaignIds) > 2
    /\ \E i \in Targets :
          /\ Len(last.pre.projects[i].campaignIds) = 2
          /\ last.patch.campaignIds[1] = last.pre.projects[i].campaignIds[2]
          /\ ResultingValuesStored(last.pre.projects[i])
    /\ state.ref = last.pre.ref

Mutations ==
    {"addCampaign", "renameCampaign", "updateCampaignColor", "repositionCampaign",
     "updateCampaignMission", "deleteCampaign", "addProject", "updateProject",
     "deleteProject"}

\* C14 as stated: whenever a mutation returns a snapshot other than its input,
\* the updatedAt of the new snapshot differs from the updatedAt of the input.
C14_UpdatedAtBumped ==
    (last.op \in Mutations /\ state.ref # last.pre.ref) =>
        state.updatedAt # last.pre.updatedAt

CampaignMutations ==
    {"renameCampaign", "updateCampaignColor", "repositionCampaign",
     "updateCampaignMission", "deleteCampaign"}

\* A returned snapshot is the input object with its contents untouched, or
\* another object.
IdenticalOrNew == state.ref = last.pre.ref => state = last.pre

\* Campaigns and projects that exist before an add operation are as they were.
AddFrame ==
    /\ Op("addCampaign") =>
          /\ state.projects = last.pre.projects
          /\ SubSeq(state.campaigns, 1, Len(last.pre.campaigns)) = last.pre.campaigns
    /\ Op("addProject") =>
          /\ state.campaigns = last.pre.campaigns
          /\ SubSeq(state.projects, 1, Len(last.pre.projects)) = last.pre.projects

\* updateProject and deleteProject leave campaigns and the projects with another
\* id as they were.
ProjectFrame ==
    last.op \in {"updateProject", "deleteProject"} =>
        /\ state.campaigns = last.pre.campaigns
        /\ Without(state.projects, last.id) = Without(last.pre.projects, last.id)

\* C15 as stated: every mutation returns the identical snapshot or a new one and
\* leaves untargeted entities unchanged: every campaign mutation leaves projects
\* and the other campaigns as they were; addProject, updateProject and
\* deleteProject leave campaigns and the other projects as they were.
C15_Original ==
    last.op \in Mutations =>
        /\ IdenticalOrNew
        /\ AddFrame
        /\ ProjectFrame
        /\ last.op \in CampaignMutations =>
              /\ state.projects = last.pre.projects
              /\ Without(state.campaigns, last.id) = Without(last.pre.campaigns, last.id)

IsMember(project, campaignId) ==
    \E k \in 1..Len(project.campaignIds) : project.campaignIds[k] = campaignId

\* C15 (amended): as stated, except that deleteCampaign changes the projects that
\* are members of the deleted campaign; it leaves the other campaigns and the
\* projects that are not members as they were, in order.
C15_FrameEffect ==
    last.op \in Mutations =>
        /\ IdenticalOrNew
        /\ AddFrame
        /\ ProjectFrame
        /\ last.op \in CampaignMutations =>
              /\ Without(state.campaigns, last.id) = Without(last.pre.campaigns, last.id)
              /\ SelectSeq(state.projects, LAMBDA p : ~IsMember(p, last.id))
                   = IF Op("deleteCampaign")
                     THEN SelectSeq([i \in 1..Len(last.pre.projects) |->
                                        [last.pre.projects[i] EXCEPT !.campaignIds =
                                            SelectSeq(@, LAMBDA id : id # last.id)]],
                                    LAMBDA p : p.campaignIds # <<>>)
                     ELSE SelectSeq(last.pre.projects, LAMBDA p : ~IsMember(p, last.id))
              /\ ~Op("deleteCampaign") => state.projects = last.pre.projects

\* A rename changed one of several campaigns on a board that holds projects.
C15_Witness ==
    /\ Op("renameCampaign")
    /\ state.ref # last.pre.ref
    /\ Len(state.campaigns) >= 2
    /\ Len(state.projects) >= 1
    /\ \E i \in 1..Len(state.campaigns) : state.campaigns[i].id # last.id

\* The project addProject appended.
Added == state.projects[Len(state.projects)]

\* The board holds the campaigns Writing and Building and no project, and the
\* draft is launchable with link "docs.new" and the first campaign's id.
DocsNewExample ==
    /\ Op("addProject")
    /\ last.pre.projects = <<>>
    /\ [i \in 1..Len(last.pre.campaigns) |-> last.pre.campaigns[i].name]
         = << <<"Writing">>, <<"Building">> >>
    /\ Field(last.draft, "mode") = LAUNCHABLE
    /\ Field(last.draft, "link") = <<"docs.new">>
    /\ Field(last.draft, "campaignIds") = << last.pre.campaigns[1].id >>
    /\ ~IsBlank(Field(last.draft, "name"))

\* C16: from the empty state, adding the campaigns Writing and Building and then
\* a launchable project with link "docs.new" in the first campaign gives exactly 2
\* campaigns and 1 project whose link is "https://docs.new"; and every project
\* stored by addProject with link type web has the trimmed input behind an
\* https:// prefix when the input has no URI scheme, and the trimmed input itself
\* when it has one.
C16_WebLinkPrefixed ==
    /\ DocsNewExample =>
          /\ Len(state.campaigns) = 2
          /\ Len(state.projects) = 1
          /\ state.projects[1].link = <<"https://", "docs.new">>
    /\ (/\ Op("addProject")
        /\ state.ref # last.pre.ref
        /\ Added.linkType = <<"web">>
        /\ Added.mode # PHYSICAL
        /\ \A i \in 1..Len(last.draft.link) :
              last.draft.link[i] # GOOGLE_PLAY_BOOKS_READER) =>
          \E t \in {Added.link, Tail(Added.link)} :
              /\ IsTrimOf(t, last.draft.link)
              /\ (t = Added.link) <=> (\E i \in 1..Len(t) : t[i] \in SchemeTokens)
              /\ t # Added.link => Head(Added.link) = "https://"

\* The example, reached from the empty state in three operations.
C16_Witness ==
    /\ DocsNewExample
    /\ steps = 3
    /\ Len(state.projects) = 1

\* A web link that already has a scheme was stored.
C16_SchemeWitness ==
    /\ Op("addProject")
    /\ state.ref # last.pre.ref
    /\ Added.linkType = <<"web">>
    /\ Added.link = <<"obsidian://", "vault">>

\* The raw projects of the loaded payload.
RawProjects == IF Has(last.raw, "projects") THEN last.raw.projects ELSE <<>>

\* C17 as stated: a project whose draft or payload entry supplies no linkType is
\* stored with the link type inferred from its link string (web when nothing
\* else is recognised), both by addProject and by normalizeState.
C17_LinkTypeInferred ==
    /\ (/\ Op("addProject")
        /\ state.ref # last.pre.ref
        /\ Field(last.draft, "linkType") = Undefined) =>
          Added.linkType = inferLinkType(Field(last.draft, "link"))
    /\ Op("initialize") =>
          \A j \in 1..Len(RawProjects) :
              LET raw == RawProjects[j]
              IN (/\ IsObject(raw)
                  /\ Field(raw, "linkType") = Undefined
                  /\ Has(raw, "id")) =>
                     \A i \in 1..Len(state.projects) :
                         (/\ state.projects[i].id = trim(raw.id)
                          /\ IsTrimOf(state.projects[i].name, Field(raw, "name"))) =>
                             state.projects[i].linkType = inferLinkType(Field(raw, "link"))

\* The projects of the snapshot after the call that carry the addressed id.
Updated == {i \in 1..Len(state.projects) : state.projects[i].id = last.id}

\* The project has a link type with a URI scheme of its own and stores a link.
SchemeTyped(project) ==
    /\ project.linkType \in EDITOR_LINK_TYPES \cup {<<"obsidian">>}
    /\ project.mode # PHYSICAL

\* C18 as stated: a project stored by addProject or updateProject with link type
\* obsidian, vscode, cursor or antigravity has the link the helper-builder makes
\* of the raw value (the raw value itself when it carries the scheme, the scheme
\* synthesized around the cleaned path otherwise), so its link starts with the
\* scheme of its type.
C18_SchemeSynthesized ==
    /\ (Op("addProject") /\ state.ref # last.pre.ref /\ SchemeTyped(Added)) =>
          /\ Added.link = buildLinkFromHelper(Added.linkType, Field(last.draft, "link"))
          /\ Head(Added.link) = schemeOf(Added.linkType)
    /\ (Op("updateProject") /\ state.ref # last.pre.ref /\ Has(last.patch, "link")) =>
          \A i \in Updated :
              SchemeTyped(state.projects[i]) =>
                  /\ state.projects[i].link
                       = buildLinkFromHelper(state.projects[i].linkType, last.patch.link)
                  /\ Head(state.projects[i].link) = schemeOf(state.projects[i].linkType)

\* C19 as stated: updateProject on an existing project with a patch whose name
\* trims to empty (and whose merged membership names an existing campaign) is
\* rejected: the identical snapshot is returned and updatedAt is not bumped.
C19_BlankNameRejected ==
    (/\ Op("updateProject")
     /\ Targets # {}
     /\ Has(last.patch, "name")
     /\ IsBlank(last.patch.name)
     /\ \A i \in Targets : HasValidMembership(last.pre.projects[i])) =>
        /\ SameReference
        /\ state.updatedAt = last.pre.updatedAt

UniqueIds(entities) ==
    \A i, j \in 1..Len(entities) : entities[i].id = entities[j].id => i = j

\* C20 as stated: in the snapshot normalizeState returns for any payload, and in
\* every snapshot reached from it by the mutations, campaign ids are pairwise
\* distinct and project ids are pairwise distinct.
C20_IdsUnique == UniqueIds(state.campaigns) /\ UniqueIds(state.projects)

\* The campaigns array of the board a layout call was given ([] when missing).
BoardCampaigns == IF Has(last.pre, "campaigns") THEN last.pre.campaigns ELSE <<>>

BoardProjects == IF Has(last.pre, "projects") THEN last.pre.projects ELSE <<>>

\* The number of slots asked for: the given positive integer, 6 otherwise.
SlotCount ==
    IF last.maxSlots.kind = "number" /\ last.maxSlots.value > 0
    THEN last.maxSlots.value ELSE 6

\* C21: buildCampaignSlots returns exactly N entries, N being the given positive
\* integer and 6 when maxSlots is omitted, not a finite number or not positive;
\* entry i has slotIndex i (from 0) and holds the i-th campaign of the board in
\* stored order when there is one and the null placeholder otherwise, also for
\* a board without a campaigns array.
C21_SlotsComplete ==
    Op("buildCampaignSlots") =>
        /\ Len(last.slots) = SlotCount
        /\ \A i \in 1..SlotCount :
              /\ last.slots[i].slotIndex = i - 1
              /\ last.slots[i].campaign
                   = IF i <= Len(BoardCampaigns) /\ IsObject(BoardCampaigns[i])
                     THEN BoardCampaigns[i] ELSE Null

\* The default slot count on a board of three campaigns: three filled slots and
\* three placeholders.
C21_Witness ==
    /\ Op("buildCampaignSlots")
    /\ last.maxSlots = Omitted
    /\ Len(BoardCampaigns) = 3
    /\ Len(last.slots) = 6
    /\ last.slots[3].campaign # Null
    /\ last.slots[4].campaign = Null

\* The campaigns the board shows: the first SlotCount campaigns.
Visible == SubSeq(BoardCampaigns, 1, Min(SlotCount, Len(BoardCampaigns)))

\* C22: buildProjectsByCampaign returns one list per visible campaign and no
\* other list; the list of a campaign holds, in stored project order and once
\* each, exactly the projects whose campaignIds name that campaign, so a project
\* with k visible memberships is listed k times in all.
C22_ProjectsByCampaign ==
    (Op("buildProjectsByCampaign") /\ ~last.threw) =>
        /\ DOMAIN last.map = {Visible[i].id : i \in 1..Len(Visible)}
        /\ \A i \in 1..Len(Visible) :
              last.map[Visible[i].id]
                = SelectSeq(BoardProjects,
                            LAMBDA p : /\ IsObject(p)
                                       /\ Has(p, "campaignIds")
                                       /\ \E k \in 1..Len(p.campaignIds) :
                                             p.campaignIds[k] = Visible[i].id)

\* Two of three campaigns are visible; a project of the hidden and a visible
\* campaign is listed once, a project of both visible campaigns twice, and one
\* list holds three projects.
C22_Witness ==
    /\ Op("buildProjectsByCampaign")
    /\ ~last.threw
    /\ Len(BoardCampaigns) = 3
    /\ Len(Visible) = 2
    /\ \E p \in {BoardProjects[j] : j \in 1..Len(BoardProjects)} :
          /\ Len(p.campaignIds) = 2
          /\ Cardinality({i \in 1..2 : \E k \in 1..Len(last.map[Visible[i].id]) :
                                          last.map[Visible[i].id][k] = p}) = 1
    /\ \E p \in {BoardProjects[j] : j \in 1..Len(BoardProjects)} :
          Cardinality({i \in 1..2 : \E k \in 1..Len(last.map[Visible[i].id]) :
                                       last.map[Visible[i].id][k] = p}) = 2
    /\ \E i \in 1..2 : Len(last.map[Visible[i].id]) = 3

\* C23 as stated: no layout operation throws, whatever the board (missing
\* arrays, null entries, projects without campaignIds) and the viewport.
C23_LayoutNeverThrows ==
    last.op \in {"buildProjectsByCampaign", "ensureCampaignPositions",
                 "computeProjectPositions"} => ~last.threw

\* A layout pass that returned, for a viewport with finite sides.
Passed ==
    /\ Op("ensureCampaignPositions")
    /\ ~last.threw
    /\ last.viewport.width.kind = "number"
    /\ last.viewport.height.kind = "number"

\* The bounds of a campaign centre: the viewport inset by the canvas padding plus
\* the campaign radius.
MinX == CANVAS_PADDING + CAMPAIGN_RADIUS

MaxX == last.viewport.width.value - CANVAS_PADDING - CAMPAIGN_RADIUS

MinY == CANVAS_PADDING + CAMPAIGN_RADIUS

MaxY == last.viewport.height.value - CANVAS_PADDING - CAMPAIGN_RADIUS

Positioned(campaign) == campaign.x.kind = "number" /\ campaign.y.kind = "number"

WithinBounds(campaign) ==
    /\ Positioned(campaign)
    /\ MinX <= campaign.x.value /\ campaign.x.value <= MaxX
    /\ MinY <= campaign.y.value /\ campaign.y.value <= MaxY

\* The pass changed nothing but x and y of campaigns.
OnlyCoordinatesChanged ==
    /\ Len(state.campaigns) = Len(last.pre.campaigns)
    /\ \A i \in 1..Len(state.campaigns) :
          [state.campaigns[i] EXCEPT !.x = last.pre.campaigns[i].x,
                                     !.y = last.pre.campaigns[i].y]
            = last.pre.campaigns[i]
    /\ [state EXCEPT !.campaigns = last.pre.campaigns, !.ref = last.pre.ref] = last.pre

\* C24 as stated: ensureCampaignPositions returns a new state exactly when some
\* campaign lacked finite coordinates or had a coordinate outside the bounds,
\* and the identical state otherwise (also when there are no campaigns); it
\* changes nothing but campaign x and y.
C24_ChangeIffSeededOrClamped ==
    Passed =>
        /\ (state.ref # last.pre.ref)
             <=> (\E i \in 1..Len(last.pre.campaigns) :
                     ~WithinBounds(last.pre.campaigns[i]))
        /\ state.ref = last.pre.ref => state = last.pre
        /\ OnlyCoordinatesChanged

\* C25 as stated: after a layout pass, for every board and every viewport
\* size, each campaign has finite x and y with minX <= x <= maxX and
\* minY <= y <= maxY.
C25_CampaignsWithinBounds ==
    Passed => \A i \in 1..Len(state.campaigns) : WithinBounds(state.campaigns[i])

\* computeProjectPositions returned, for a viewport with finite sides, on a
\* board whose campaigns are positioned and carry distinct ids and whose
\* projects carry distinct ids.
Computed ==
    /\ Op("computeProjectPositions")
    /\ ~last.threw
    /\ last.viewport.width.kind = "number"
    /\ last.viewport.height.kind = "number"
    /\ \A i, j \in 1..Len(BoardCampaigns) :
          BoardCampaigns[i].id = BoardCampaigns[j].id => i = j
    /\ \A i, j \in 1..Len(BoardProjects) :
          BoardProjects[i].id = BoardProjects[j].id => i = j
    /\ \A i \in 1..Len(BoardCampaigns) : Positioned(BoardCampaigns[i])

MemberSet(project) == {project.campaignIds[k] : k \in 1..Len(project.campaignIds)}

\* The only project of the board with its membership set.
Alone(i) ==
    \A j \in 1..Len(BoardProjects) :
        MemberSet(BoardProjects[j]) = MemberSet(BoardProjects[i]) => j = i

\* The sum of a coordinate over the campaigns with the given ids.
RECURSIVE CoordinateSum(_, _)
CoordinateSum(ids, key) ==
    IF ids = {} THEN 0
    ELSE LET id == CHOOSE id \in ids : TRUE
             campaign == CHOOSE c \in {BoardCampaigns[i] : i \in 1..Len(BoardCampaigns)} :
                             c.id = id
         IN campaign[key].value + CoordinateSum(ids \ {id}, key)

\* position is the mean total / count, clamped into low..high.
IsClampedMean(position, total, count, low, high) ==
    /\ position.kind = "number"
    /\ IF total < low * count THEN position.num = low * position.den
       ELSE IF total > high * count THEN position.num = high * position.den
       ELSE position.num * count = total * position.den

\* The position lies strictly inside the project bounds.
Unclamped(position) ==
    /\ CANVAS_PADDING * position.x.den < position.x.num
    /\ position.x.num < (last.viewport.width.value - CANVAS_PADDING) * position.x.den
    /\ CANVAS_PADDING * position.y.den < position.y.num
    /\ position.y.num < (last.viewport.height.value - CANVAS_PADDING) * position.y.den

\* C26: a project that is the only one with its membership set is placed at the
\* mean x and mean y of its member campaigns, clamped into the project bounds
\* (the viewport inset by the canvas padding); projects whose membership lists
\* hold the same ids in another order form one group, so they are spread
\* around the centroid and do not share a position.
C26_SingleAtCentroid ==
    Computed =>
        /\ \A i \in 1..Len(BoardProjects) :
              Alone(i) =>
                  LET project == BoardProjects[i]
                      position == last.positions[project.id]
                      count == Cardinality(MemberSet(project))
                  IN /\ IsClampedMean(position.x, CoordinateSum(MemberSet(project), "x"),
                                      count, CANVAS_PADDING,
                                      last.viewport.width.value - CANVAS_PADDING)
                     /\ IsClampedMean(position.y, CoordinateSum(MemberSet(project), "y"),
                                      count, CANVAS_PADDING,
                                      last.viewport.height.value - CANVAS_PADDING)
        /\ \A i, j \in 1..Len(BoardProjects) :
              (/\ i # j
               /\ MemberSet(BoardProjects[i]) = MemberSet(BoardProjects[j])
               /\ Unclamped(last.positions[BoardProjects[i].id])
               /\ Unclamped(last.positions[BoardProjects[j].id])) =>
                  last.positions[BoardProjects[i].id] # last.positions[BoardProjects[j].id]

\* A lone project of two campaigns sits at x = 650.5 between them, unclamped,
\* while two projects list the same two campaigns in opposite orders.
C26_Witness ==
    /\ Computed
    /\ \E i \in 1..Len(BoardProjects) :
          /\ Alone(i)
          /\ Len(BoardProjects[i].campaignIds) = 2
          /\ Unclamped(last.positions[BoardProjects[i].id])
          /\ last.positions[BoardProjects[i].id].x = Frac(1301, 2)
    /\ \E i, j \in 1..Len(BoardProjects) :
          /\ MemberSet(BoardProjects[i]) = MemberSet(BoardProjects[j])
          /\ BoardProjects[i].campaignIds # BoardProjects[j].campaignIds

\* C27 as stated: for any fixed viewport, running the pass again on the board
\* the pass started from yields the same coordinates, and running it on the
\* board the pass returned changes no coordinate and returns that very board.
C27_RingStable ==
    (Op("ensureCampaignPositions") /\ ~last.threw) =>
        LET rerun == ensureCampaignPositions(last.pre, last.viewport, Env)
            again == ensureCampaignPositions(state, last.viewport, Env)
        IN /\ rerun.state.campaigns = state.campaigns
           /\ ~again.threw
           /\ again.state.campaigns = state.campaigns
           /\ again.state.ref = state.ref

\* repositionCampaign was called with a position whose x and y are finite.
Repositioned ==
    /\ Op("repositionCampaign")
    /\ isFiniteNumber(last.position.x)
    /\ isFiniteNumber(last.position.y)

\* Every campaign of the board with the id of the call is at the position of
\* the call.
AtPosition(s) ==
    \A i \in 1..Len(s.campaigns) :
        s.campaigns[i].id = last.id =>
            s.campaigns[i].x = last.position.x /\ s.campaigns[i].y = last.position.y

\* C28: repositionCampaign called with the campaign's current finite (x, y)
\* returns the identical state; otherwise the campaign ends at the position, and
\* a second call with the same position returns the identical result of the
\* first, so the coordinates are those of calling once.
C28_RepositionIdempotent ==
    Repositioned =>
        LET again == repositionCampaign(state, last.id, last.position, Env)
        IN /\ AtPosition(last.pre) => SameReference
           /\ AtPosition(state)
           /\ again.ref = state.ref
           /\ again = state

\* A campaign without coordinates was moved to (1, 2): a new state was returned.
C28_Witness ==
    /\ Repositioned
    /\ state.ref # last.pre.ref
    /\ \E i \in 1..Len(last.pre.campaigns) :
          /\ last.pre.campaigns[i].id = last.id
          /\ last.pre.campaigns[i].x = Null
          /\ state.campaigns[i].x = Num(1)

\* handleImportFileSelection read the export of the board it ran on.
OwnExport ==
    /\ Op("handleImportFileSelection")
    /\ last.rawText = serializeExportPayload(buildExportPayload(last.pre, last.env))

\* C29: the text exported from any board parses, and importing the export of the
\* current board offers for confirmation a snapshot structurally equal to
\* normalizeState of that board.
C29_RoundTrip ==
    /\ Op("exportStateToFile") => ~parseImportPayload(last.text).threw
    /\ OwnExport =>
          /\ ~last.threw
          /\ panel.kind = "importConfirmation"
          /\ SameSnapshot(panel.incomingState, normalizeState(last.pre, last.env))

\* The export of a board with a positioned campaign and a project was read back.
C29_Witness ==
    /\ OwnExport
    /\ panel.kind = "importConfirmation"
    /\ Len(last.pre.projects) > 0
    /\ \E i \in 1..Len(last.pre.campaigns) : last.pre.campaigns[i].x.kind = "number"
    /\ \E i \in 1..Len(panel.incomingState.campaigns) :
          panel.incomingState.campaigns[i].x.kind = "number"

\* The import text breaks a rule of the envelope: it is not JSON, not a JSON
\* object, has another format or version, has no parseable exportedAt, or its
\* state has no list of campaigns or no list of projects.
Malformed(text) ==
    \/ ~text.json
    \/ /\ text.json
       /\ \/ ~IsObject(text.value)
          \/ /\ IsObject(text.value)
             /\ \/ ~Has(text.value, "format")
                \/ Has(text.value, "format") /\ text.value.format # EXPORT_FORMAT
                \/ ~Has(text.value, "version")
                \/ Has(text.value, "version") /\ text.value.version # EXPORT_VERSION
                \/ ~Has(text.value, "exportedAt")
                \/ /\ Has(text.value, "exportedAt")
                   /\ \/ text.value.exportedAt = <<>>
                      \/ /\ text.value.exportedAt # <<>>
                         /\ Head(text.value.exportedAt) \notin DateTokens
                \/ ~Has(text.value, "state")
                \/ /\ Has(text.value, "state")
                   /\ \/ ~IsObject(text.value.state)
                      \/ /\ IsObject(text.value.state)
                         /\ \/ ~Has(text.value.state, "campaigns")
                            \/ ~Has(text.value.state, "projects")

\* C30: an import text that breaks a rule of the envelope makes
\* parseImportPayload fail; the board stays the very object it was, no save is
\* scheduled and no confirmation is offered.
C30_FormatErrorKeepsState ==
    (Op("handleImportFileSelection") /\ Malformed(last.rawText)) =>
        /\ last.threw
        /\ panel.kind = "info"
        /\ state = last.pre
        /\ saveTimer = last.saveTimer

\* A file of another export version was refused on a board with campaigns.
C30_Witness ==
    /\ Op("handleImportFileSelection")
    /\ last.threw
    /\ last.rawText.json
    /\ IsObject(last.rawText.value)
    /\ Has(last.rawText.value, "version")
    /\ last.rawText.value.version # EXPORT_VERSION
    /\ Len(state.campaigns) > 0
    /\ panel.message = <<"Unsupported export version.">>

\* C31: selecting a file and cancelling the confirmation leave the board and
\* the save timer as they are; the snapshot offered for confirmation is
\* normalizeState of the state in the file; the confirming click makes the board
\* that very snapshot, whole, with nothing kept from the board before, and a
\* save is scheduled.
C31_ImportOnConfirmation ==
    [][/\ last'.op \in {"handleImportFileSelection", "closePanel"} =>
             state' = state /\ saveTimer' = saveTimer
       /\ (last'.op = "handleImportFileSelection" /\ ~last'.threw) =>
             /\ panel'.kind = "importConfirmation"
             /\ panel'.incomingState
                  = normalizeState(last'.rawText.value.state, last'.env)
             /\ SameSnapshot(normalizeState(panel'.incomingState, last'.env),
                             panel'.incomingState)
       /\ last'.op = "replaceCurrentMap" =>
             /\ panel.kind = "importConfirmation"
             /\ state' = panel.incomingState
             /\ saveTimer'
             /\ panel' = NoPanel]_vars

\* The confirming click replaced a board by a different one read from a file;
\* the board before had no save pending.
C31_Witness ==
    /\ Op("replaceCurrentMap")
    /\ ~SameSnapshot(state, last.pre)
    /\ Len(last.pre.campaigns) > 0
    /\ Len(state.campaigns) > 0
    /\ saveTimer
    /\ panel = NoPanel

\* C32 as stated, read in the code's favour: a frame flush during a drag leaves
\* the save timer as it was, and after the finalizing event the campaign is at
\* the last pending position and a save is scheduled unless the stored
\* snapshot already equals the board.
C32_DragCommitSaved ==
    /\ Op("flushDragFrame") => saveTimer = last.saveTimer
    /\ Op("finalizeCampaignDrag") =>
          /\ \A i \in 1..Len(state.campaigns) :
                state.campaigns[i].id = last.id =>
                    /\ state.campaigns[i].x = last.position.x
                    /\ state.campaigns[i].y = last.position.y
          /\ saveTimer \/ stored = Stored(state)

\* No timer is pending and no notification is waiting in either window.
WindowsQuiet ==
    /\ ~saveTimer
    /\ inbox = <<>>
    /\ peer.open
    /\ ~peer.saveTimer
    /\ peer.inbox = <<>>

\* C33 as stated: with two windows on one storage, whenever every pending timer
\* has fired and every notification has been handled, both windows hold the
\* same board and it is the stored snapshot.
C33_WindowsConsistent ==
    WindowsQuiet =>
        /\ SameSnapshot(state, peer.state)
        /\ stored = Stored(state)
        /\ stored = Stored(peer.state)

\* The storage listener handled a notification.
Notified == Op("storageChanged")

\* What the listener makes of the notification before comparing stamps.
NormalizedIncoming ==
    normalizeState(IF last.notification.value THEN last.notification.state
                   ELSE createEmptyState(last.env),
                   last.env)

\* C34: a notification whose normalized snapshot carries the updatedAt of the
\* board is ignored; any other replaces the whole board by the normalized
\* snapshot, a missing value giving the empty board; in neither case is a save
\* scheduled.
C34_ExternalSnapshotReplaces ==
    Notified =>
        /\ NormalizedIncoming.updatedAt = last.pre.updatedAt => SameReference
        /\ NormalizedIncoming.updatedAt # last.pre.updatedAt =>
              /\ state.ref # last.pre.ref
              /\ SameSnapshot(state, NormalizedIncoming)
              /\ ~last.notification.value =>
                    state.campaigns = <<>> /\ state.projects = <<>>
        /\ saveTimer = last.saveTimer

\* The stored value was removed while the board had a campaign: the board became
\* the empty board.
C34_Witness ==
    /\ Notified
    /\ ~last.notification.value
    /\ last.pre.campaigns # <<>>
    /\ state.campaigns = <<>>
    /\ state.ref # last.pre.ref

\* The echo of the window's own save was ignored.
C34_EchoWitness ==
    /\ Notified
    /\ last.notification = Stored(last.pre)
    /\ SameReference

\* No timer is pending and no notification is waiting in the window.
WindowQuiet == ~saveTimer /\ inbox = <<>>

\* C35 as stated: in a single window without another writer, once an accepted
\* edit was applied and the timer has fired and every notification has been
\* handled, the board and the stored snapshot are the result of the latest
\* accepted edit.
C35_NoEditLost ==
    (last.edited /\ WindowQuiet) =>
        /\ SameSnapshot(state, last.latest)
        /\ stored = Stored(last.latest)

====
